---- MODULE Spec2Model ----
(***************************************************************************)
(* A model of handoff (github.com/fakeyudi/handoff): the session store,    *)
(* the start / note / stop / status commands, the background watcher, the  *)
(* collectors as stop runs them, and the bundle renderers and parsers.     *)
(*                                                                         *)
(* Text is modelled as a sequence of units.  A unit is one character       *)
(* ("a", "{", the quote, the backslash, ...) or one fixed multi-character  *)
(* piece that the code always writes and reads whole (a JSON key such as   *)
(* "id" with its quotes, an RFC 3339 time, a Markdown header).  "0xFF"     *)
(* stands for a byte that is not valid UTF-8, "U+FFFD" for the Unicode     *)
(* replacement character.                                                  *)
(***************************************************************************)
EXTENDS Integers, Sequences, FiniteSets, TLC

(***************************************************************************)
(* Bounds of the model.                                                    *)
(***************************************************************************)
\* The longest string of the bundles and sessions given to the codecs.
MaxStrLen == 2

\* How many command invocations and watcher events run at the same time.
MaxProcs == 2

\* How many command invocations and watcher events are ever launched.
MaxInvocations == 3

\* The latest instant the clock reaches.
MaxClock == 3

\* The most lines the shell plugin's command log holds.
MaxLog == 1

\* The longest list of commands given to filterCommands, every list up to
\* that length being tried.
MaxCmds == 3

\* By how many commands the long histories exceed maxNoTimestampCommands.
MaxExtra == 2

VARIABLES
  inode,        \* the files of the data directory: id -> [content, whole]
  sessionFile,  \* the file that session.json names, 0 when there is none
  proc,         \* the running command invocations and watcher events
  clock,        \* time.Now()
  launched,     \* the number of invocations launched so far
  cmdLog,       \* the shell plugin's command log, commands.log
  rt            \* the codec round trip under test

vars == << inode, sessionFile, proc, clock, launched, cmdLog, rt >>

(***************************************************************************)
(* Go values.  A slice is nil or a (possibly empty) list; a pointer is the *)
(* empty sequence (nil) or a one-element sequence.  A time.Time is the     *)
(* instant it denotes, a natural number, 0 being the zero time; two times  *)
(* are compared as time.Time.Equal compares them.                          *)
(***************************************************************************)
NilSlice == [isnil |-> TRUE, items |-> <<>>]

Slice(s) == [isnil |-> FALSE, items |-> s]

\* append(sl, xs...): appending nothing to a nil slice leaves it nil.
GoAppend(sl, xs) ==
  IF sl.isnil /\ Len(xs) = 0 THEN NilSlice ELSE Slice(sl.items \o xs)

NilPtr == <<>>

PtrTo(v) == <<v>>

RECURSIVE Flatten(_)
Flatten(ss) == IF Len(ss) = 0 THEN <<>> ELSE Head(ss) \o Flatten(Tail(ss))

RECURSIVE Join(_, _)
Join(parts, sep) ==
  IF Len(parts) = 0 THEN <<>>
  ELSE IF Len(parts) = 1 THEN parts[1]
  ELSE parts[1] \o sep \o Join(Tail(parts), sep)

(***************************************************************************)
(* The struct declarations and their json tags.                            *)
(***************************************************************************)
Field(n, t, o) == [name |-> n, type |-> t, omitempty |-> o]

SessionFields ==
  << Field("id", "string", FALSE),
     Field("start_time", "time", FALSE),
     Field("stop_time", "*time", TRUE),
     Field("work_dir", "string", FALSE),
     Field("annotations", "[]Annotation", FALSE),
     Field("file_edits", "[]FileEdit", FALSE),
     Field("history_baseline_count", "int", TRUE) >>

AnnotationFields ==
  << Field("timestamp", "time", FALSE),
     Field("message", "string", FALSE),
     Field("is_summary", "bool", FALSE) >>

FileEditFields ==
  << Field("path", "string", FALSE),
     Field("timestamp", "time", FALSE),
     Field("diff", "string", TRUE) >>

ContextBundleFields ==
  << Field("session", "SessionMeta", FALSE),
     Field("annotations", "[]Annotation", FALSE),
     Field("file_edits", "[]FileEdit", FALSE),
     Field("git", "*GitInfo", TRUE),
     Field("commands", "[]Command", FALSE),
     Field("editor_tabs", "[]string", FALSE) >>

SessionMetaFields ==
  << Field("id", "string", FALSE),
     Field("start_time", "time", FALSE),
     Field("stop_time", "time", FALSE),
     Field("work_dir", "string", FALSE),
     Field("duration", "string", FALSE),
     Field("author", "string", TRUE) >>

GitInfoFields ==
  << Field("branch", "string", FALSE),
     Field("head_commit", "string", FALSE),
     Field("diff", "string", FALSE),
     Field("staged_diff", "string", FALSE),
     Field("recent_log", "[]string", FALSE) >>

CommandFields ==
  << Field("raw", "string", FALSE),
     Field("timestamp", "time", FALSE) >>

StructFields(T) ==
  CASE T = "Session" -> SessionFields
    [] T = "Annotation" -> AnnotationFields
    [] T = "FileEdit" -> FileEditFields
    [] T = "ContextBundle" -> ContextBundleFields
    [] T = "SessionMeta" -> SessionMetaFields
    [] T = "GitInfo" -> GitInfoFields
    [] T = "Command" -> CommandFields

\* The kind of a Go type and, for a slice or a pointer, its element type.
TypeKind(T) ==
  CASE T \in {"string", "time", "bool", "int"} -> T
    [] T \in {"[]Annotation", "[]FileEdit", "[]Command", "[]string"} -> "slice"
    [] T \in {"*time", "*GitInfo"} -> "ptr"
    [] OTHER -> "struct"

ElemType(T) ==
  CASE T = "[]Annotation" -> "Annotation"
    [] T = "[]FileEdit" -> "FileEdit"
    [] T = "[]Command" -> "Command"
    [] T = "[]string" -> "string"
    [] T = "*time" -> "time"
    [] T = "*GitInfo" -> "GitInfo"

FieldNames(T) == {StructFields(T)[i].name : i \in 1..Len(StructFields(T))}

FieldNamed(T, n) ==
  StructFields(T)[CHOOSE i \in 1..Len(StructFields(T)) : StructFields(T)[i].name = n]

\* The zero value of a type.
RECURSIVE Zero(_)
Zero(T) ==
  CASE TypeKind(T) = "string" -> <<>>
    [] TypeKind(T) = "time" -> 0
    [] TypeKind(T) = "bool" -> FALSE
    [] TypeKind(T) = "int" -> 0
    [] TypeKind(T) = "slice" -> NilSlice
    [] TypeKind(T) = "ptr" -> NilPtr
    [] TypeKind(T) = "struct" -> [n \in FieldNames(T) |-> Zero(FieldNamed(T, n).type)]

(***************************************************************************)
(* encoding/json, as json.Marshal, json.MarshalIndent and json.Unmarshal   *)
(* treat the types above.                                                  *)
(***************************************************************************)
\* The RFC 3339 text of the instants a JSON time can hold (years 0..9999);
\* Time.MarshalJSON fails for any later instant.
TimeText == << "0001-01-01T00:00:00Z", "T+1", "T+2" >>

TimeRepresentable(t) == t + 1 \in DOMAIN TimeText

DigitText == << "0", "1", "2", "3", "4", "5", "6", "7", "8", "9" >>

RECURSIVE IntText(_)
IntText(n) ==
  IF n < 10 THEN <<DigitText[n + 1]>>
  ELSE IntText(n \div 10) \o <<DigitText[(n % 10) + 1]>>

\* A JSON key with its quotes, one unit.
Key(name) == "\"" \o name \o "\""

\* How the encoder writes one character of a string: the quote, the
\* backslash and control characters are escaped, "<" is escaped for HTML
\* safety, and a byte that is not valid UTF-8 is replaced by U+FFFD.
EscapeChar(c) ==
  CASE c = "\"" -> << "\\", "\"" >>
    [] c = "\\" -> << "\\", "\\" >>
    [] c = "\n" -> << "\\", "n" >>
    [] c = "<" -> << "\\", "u003c" >>
    [] c = "0xFF" -> << "\\", "ufffd" >>
    [] OTHER -> << c >>

EncString(s) ==
  << "\"" >> \o Flatten([i \in 1..Len(s) |-> EscapeChar(s[i])]) \o << "\"" >>

\* omitempty: false, 0, a nil pointer, and an empty slice or string.
IsEmptyValue(T, v) ==
  CASE TypeKind(T) = "string" -> Len(v) = 0
    [] TypeKind(T) = "bool" -> v = FALSE
    [] TypeKind(T) = "int" -> v = 0
    [] TypeKind(T) = "slice" -> Len(v.items) = 0
    [] TypeKind(T) = "ptr" -> Len(v) = 0
    [] OTHER -> FALSE

\* The text of value v of type T; w is the white space MarshalIndent puts
\* between the parts (empty for Marshal).
RECURSIVE Enc(_, _, _)
Enc(T, v, w) ==
  CASE TypeKind(T) = "string" -> EncString(v)
    [] TypeKind(T) = "time" -> << "\"", TimeText[v + 1], "\"" >>
    [] TypeKind(T) = "bool" -> IF v THEN << "true" >> ELSE << "false" >>
    [] TypeKind(T) = "int" -> IntText(v)
    [] TypeKind(T) = "ptr" ->
         IF Len(v) = 0 THEN << "null" >> ELSE Enc(ElemType(T), v[1], w)
    [] TypeKind(T) = "slice" ->
         IF v.isnil THEN << "null" >>
         ELSE IF Len(v.items) = 0 THEN << "[", "]" >>
         ELSE << "[" >> \o w
              \o Join([i \in 1..Len(v.items) |-> Enc(ElemType(T), v.items[i], w)],
                      << "," >> \o w)
              \o w \o << "]" >>
    [] TypeKind(T) = "struct" ->
         LET fs == SelectSeq(StructFields(T),
                     LAMBDA f : ~(f.omitempty /\ IsEmptyValue(f.type, v[f.name])))
             ms == [i \in 1..Len(fs) |->
                      << Key(fs[i].name), ":" >> \o w \o Enc(fs[i].type, v[fs[i].name], w)]
         IN IF Len(fs) = 0 THEN << "{", "}" >>
            ELSE << "{" >> \o w \o Join(ms, << "," >> \o w) \o w \o << "}" >>

\* The times held by a value: encoding fails if one is not representable.
RECURSIVE TimesOf(_, _)
TimesOf(T, v) ==
  CASE TypeKind(T) = "time" -> {v}
    [] TypeKind(T) = "ptr" -> IF Len(v) = 0 THEN {} ELSE TimesOf(ElemType(T), v[1])
    [] TypeKind(T) = "slice" ->
         UNION {TimesOf(ElemType(T), v.items[i]) : i \in 1..Len(v.items)}
    [] TypeKind(T) = "struct" ->
         UNION {TimesOf(FieldNamed(T, n).type, v[n]) : n \in FieldNames(T)}
    [] OTHER -> {}

MarshalW(T, v, w) ==
  IF \E t \in TimesOf(T, v) : ~TimeRepresentable(t)
  THEN [err |-> TRUE, data |-> <<>>]
  ELSE [err |-> FALSE, data |-> Enc(T, v, w)]

Marshal(T, v) == MarshalW(T, v, <<>>)

MarshalIndent(T, v) == MarshalW(T, v, << "ws" >>)

(***************************************************************************)
(* json.Unmarshal.  A decoding step returns [ok, v, i]: whether it         *)
(* succeeded, the value, and the index of the unit after it.               *)
(***************************************************************************)
Fail == [ok |-> FALSE, v |-> <<>>, i |-> 0]

Ok(v, i) == [ok |-> TRUE, v |-> v, i |-> i]

At(d, i) == IF i >= 1 /\ i <= Len(d) THEN d[i] ELSE "EOF"

RECURSIVE SkipWs(_, _)
SkipWs(d, i) == IF At(d, i) = "ws" THEN SkipWs(d, i + 1) ELSE i

IsDigit(u) == \E k \in DOMAIN DigitText : DigitText[k] = u

DigitVal(u) == (CHOOSE k \in DOMAIN DigitText : DigitText[k] = u) - 1

\* The character an escape sequence denotes after the backslash.
EscapeUnits == {"\"", "\\", "n", "u003c", "ufffd"}

Unescape(u) ==
  CASE u = "\"" -> "\""
    [] u = "\\" -> "\\"
    [] u = "n" -> "\n"
    [] u = "u003c" -> "<"
    [] u = "ufffd" -> "U+FFFD"

\* A string literal after its opening quote.  A raw control character is a
\* syntax error; a byte that is not valid UTF-8 is read as U+FFFD.
RECURSIVE DecStringBody(_, _, _)
DecStringBody(d, i, acc) ==
  IF i > Len(d) THEN Fail
  ELSE IF d[i] = "\"" THEN Ok(acc, i + 1)
  ELSE IF d[i] = "\\" THEN
    IF At(d, i + 1) \in EscapeUnits
    THEN DecStringBody(d, i + 2, Append(acc, Unescape(d[i + 1])))
    ELSE Fail
  ELSE IF d[i] = "\n" THEN Fail
  ELSE IF d[i] = "0xFF" THEN DecStringBody(d, i + 1, Append(acc, "U+FFFD"))
  ELSE DecStringBody(d, i + 1, Append(acc, d[i]))

DecString(d, i) == IF At(d, i) = "\"" THEN DecStringBody(d, i + 1, <<>>) ELSE Fail

RECURSIVE DecDigits(_, _, _)
DecDigits(d, i, n) ==
  IF IsDigit(At(d, i)) THEN DecDigits(d, i + 1, 10 * n + DigitVal(d[i])) ELSE Ok(n, i)

DecInt(d, i) ==
  IF ~IsDigit(At(d, i)) THEN Fail
  ELSE IF d[i] = "0" /\ IsDigit(At(d, i + 1)) THEN Fail
  ELSE DecDigits(d, i, 0)

DecTime(d, i) ==
  LET r == DecString(d, i) IN
  IF r.ok /\ Len(r.v) = 1 /\ (\E k \in DOMAIN TimeText : TimeText[k] = r.v[1])
  THEN Ok((CHOOSE k \in DOMAIN TimeText : TimeText[k] = r.v[1]) - 1, r.i)
  ELSE Fail

AllKeyUnits ==
  {Key(n) : n \in UNION {FieldNames(T) :
     T \in {"Session", "Annotation", "FileEdit", "ContextBundle",
            "SessionMeta", "GitInfo", "Command"}}}

\* The scanner: the syntax of any JSON value, whatever its type.
RECURSIVE SkipValue(_, _), SkipMembers(_, _), SkipElems(_, _)
SkipValue(d, i) ==
  LET u == At(d, i) IN
  IF u = "\"" THEN DecStringBody(d, i + 1, <<>>)
  ELSE IF u \in {"true", "false", "null"} THEN Ok(<<>>, i + 1)
  ELSE IF IsDigit(u) THEN DecInt(d, i)
  ELSE IF u = "{" THEN
    IF At(d, SkipWs(d, i + 1)) = "}" THEN Ok(<<>>, SkipWs(d, i + 1) + 1)
    ELSE SkipMembers(d, SkipWs(d, i + 1))
  ELSE IF u = "[" THEN
    IF At(d, SkipWs(d, i + 1)) = "]" THEN Ok(<<>>, SkipWs(d, i + 1) + 1)
    ELSE SkipElems(d, SkipWs(d, i + 1))
  ELSE Fail

SkipMembers(d, i) ==
  LET k == IF At(d, i) \in AllKeyUnits THEN Ok(<<>>, i + 1) ELSE DecString(d, i)
      c == SkipWs(d, k.i)
      r == SkipValue(d, SkipWs(d, c + 1))
      e == SkipWs(d, r.i)
  IN IF ~k.ok \/ At(d, c) # ":" THEN Fail
     ELSE IF ~r.ok THEN Fail
     ELSE IF At(d, e) = "," THEN SkipMembers(d, SkipWs(d, e + 1))
     ELSE IF At(d, e) = "}" THEN Ok(<<>>, e + 1)
     ELSE Fail

SkipElems(d, i) ==
  LET r == SkipValue(d, i)
      e == SkipWs(d, r.i)
  IN IF ~r.ok THEN Fail
     ELSE IF At(d, e) = "," THEN SkipElems(d, SkipWs(d, e + 1))
     ELSE IF At(d, e) = "]" THEN Ok(<<>>, e + 1)
     ELSE Fail

\* The decoder: a value of type T.  null leaves the zero value; a key that
\* names no field of the struct is skipped; a value of the wrong JSON type
\* is an error.
RECURSIVE Dec(_, _, _), DecMembers(_, _, _, _), DecElems(_, _, _, _)
Dec(T, d, i) ==
  LET u == At(d, i) IN
  IF u = "null" THEN Ok(Zero(T), i + 1)
  ELSE CASE TypeKind(T) = "string" -> DecString(d, i)
         [] TypeKind(T) = "time" -> DecTime(d, i)
         [] TypeKind(T) = "bool" ->
              IF u \in {"true", "false"} THEN Ok(u = "true", i + 1) ELSE Fail
         [] TypeKind(T) = "int" -> DecInt(d, i)
         [] TypeKind(T) = "ptr" ->
              LET r == Dec(ElemType(T), d, i) IN
              IF r.ok THEN Ok(PtrTo(r.v), r.i) ELSE Fail
         [] TypeKind(T) = "slice" ->
              IF u # "[" THEN Fail
              ELSE IF At(d, SkipWs(d, i + 1)) = "]"
              THEN Ok(Slice(<<>>), SkipWs(d, i + 1) + 1)
              ELSE DecElems(ElemType(T), d, SkipWs(d, i + 1), <<>>)
         [] TypeKind(T) = "struct" ->
              IF u # "{" THEN Fail
              ELSE IF At(d, SkipWs(d, i + 1)) = "}"
              THEN Ok(Zero(T), SkipWs(d, i + 1) + 1)
              ELSE DecMembers(T, d, SkipWs(d, i + 1), Zero(T))

DecMembers(T, d, i, acc) ==
  LET known == At(d, i) \in {Key(n) : n \in FieldNames(T)}
      f == FieldNamed(T, CHOOSE n \in FieldNames(T) : Key(n) = At(d, i))
      k == IF At(d, i) \in AllKeyUnits THEN Ok(<<>>, i + 1) ELSE DecString(d, i)
      c == SkipWs(d, k.i)
      s == SkipWs(d, c + 1)
      r == IF known THEN Dec(f.type, d, s) ELSE SkipValue(d, s)
      acc2 == IF known /\ At(d, s) # "null" THEN [acc EXCEPT ![f.name] = r.v] ELSE acc
      e == SkipWs(d, r.i)
  IN IF ~k.ok \/ At(d, c) # ":" THEN Fail
     ELSE IF ~r.ok THEN Fail
     ELSE IF At(d, e) = "," THEN DecMembers(T, d, SkipWs(d, e + 1), acc2)
     ELSE IF At(d, e) = "}" THEN Ok(acc2, e + 1)
     ELSE Fail

DecElems(T, d, i, acc) ==
  LET r == Dec(T, d, i)
      e == SkipWs(d, r.i)
  IN IF ~r.ok THEN Fail
     ELSE IF At(d, e) = "," THEN DecElems(T, d, SkipWs(d, e + 1), Append(acc, r.v))
     ELSE IF At(d, e) = "]" THEN Ok(Slice(Append(acc, r.v)), e + 1)
     ELSE Fail

\* json.Unmarshal(data, &v) into a fresh v: the whole input is scanned for
\* syntax first, then decoded.
Unmarshal(T, d) ==
  LET s == SkipValue(d, SkipWs(d, 1))
      r == Dec(T, d, SkipWs(d, 1))
  IN IF s.ok /\ SkipWs(d, s.i) = Len(d) + 1 /\ r.ok
     THEN [err |-> FALSE, v |-> r.v]
     ELSE [err |-> TRUE, v |-> Zero(T)]

(***************************************************************************)
(* encoding/base64, StdEncoding.  Every unit of JSON text stands for one   *)
(* byte, its index in ByteTable; three bytes make four base64 characters.  *)
(***************************************************************************)
ByteTable ==
  << "{", "}", "[", "]", ",", ":", "\"", "\\", "true", "false", "null", "ws",
     "n", "u003c", "ufffd", "a", "b", "\n", "<", "0xFF", "U+FFFD" >>
  \o DigitText \o TimeText
  \o << Key("id"), Key("start_time"), Key("stop_time"), Key("work_dir"),
        Key("annotations"), Key("file_edits"), Key("history_baseline_count"),
        Key("timestamp"), Key("message"), Key("is_summary"), Key("path"),
        Key("diff"), Key("session"), Key("git"), Key("commands"),
        Key("editor_tabs"), Key("duration"), Key("author"), Key("branch"),
        Key("head_commit"), Key("staged_diff"), Key("recent_log"), Key("raw") >>
  \o << "/w", "/", "x", " ", "handoff", "start", "stop", "./",
        "0s", "1s", "2s", "3s", "4s", "5s",
        "uuid-1", "uuid-2", "uuid-3", "uuid-4", "uuid-5", "uuid-6" >>

ByteOf(u) == CHOOSE k \in DOMAIN ByteTable : ByteTable[k] = u

\* The unit a byte stands for; a byte outside the table is no JSON text.
UnitOf(byte) == IF byte \in DOMAIN ByteTable THEN ByteTable[byte] ELSE "0x00"

B64Alphabet ==
  << "A", "B", "C", "D", "E", "F", "G", "H", "I", "J", "K", "L", "M",
     "N", "O", "P", "Q", "R", "S", "T", "U", "V", "W", "X", "Y", "Z",
     "a", "b", "c", "d", "e", "f", "g", "h", "i", "j", "k", "l", "m",
     "n", "o", "p", "q", "r", "s", "t", "u", "v", "w", "x", "y", "z",
     "0", "1", "2", "3", "4", "5", "6", "7", "8", "9", "+", "/" >>

IsB64Char(c) == \E k \in DOMAIN B64Alphabet : B64Alphabet[k] = c

Sextet(c) == (CHOOSE k \in DOMAIN B64Alphabet : B64Alphabet[k] = c) - 1

\* One group of up to three bytes: four characters, padded with "=".
B64Group(bytes, g) ==
  LET n == Len(bytes) - 3 * (g - 1)
      x == bytes[3 * g - 2]
      y == IF n >= 2 THEN bytes[3 * g - 1] ELSE 0
      z == IF n >= 3 THEN bytes[3 * g] ELSE 0
  IN << B64Alphabet[(x \div 4) + 1],
        B64Alphabet[((x % 4) * 16 + (y \div 16)) + 1],
        IF n >= 2 THEN B64Alphabet[((y % 16) * 4 + (z \div 64)) + 1] ELSE "=",
        IF n >= 3 THEN B64Alphabet[(z % 64) + 1] ELSE "=" >>

\* base64.StdEncoding.EncodeToString
B64Encode(data) ==
  LET bytes == [i \in 1..Len(data) |-> ByteOf(data[i])]
  IN Flatten([g \in 1..((Len(bytes) + 2) \div 3) |-> B64Group(bytes, g)])

\* The bytes of one group of four characters, or failure: padding may only
\* end the last group.
B64Quad(e, g) ==
  LET c(k) == e[4 * (g - 1) + k]
      last == 4 * g = Len(e)
      pad == IF c(4) = "=" THEN (IF c(3) = "=" THEN 2 ELSE 1) ELSE 0
      good == /\ IsB64Char(c(1)) /\ IsB64Char(c(2))
              /\ IsB64Char(c(3)) \/ (c(3) = "=" /\ c(4) = "=" /\ last)
              /\ IsB64Char(c(4)) \/ (c(4) = "=" /\ last)
      s3 == IF pad = 2 THEN 0 ELSE Sextet(c(3))
      s4 == IF pad >= 1 THEN 0 ELSE Sextet(c(4))
      all == << Sextet(c(1)) * 4 + (Sextet(c(2)) \div 16),
                (Sextet(c(2)) % 16) * 16 + (s3 \div 4),
                (s3 % 4) * 64 + s4 >>
  IN IF good THEN [ok |-> TRUE, bytes |-> SubSeq(all, 1, 3 - pad)]
     ELSE [ok |-> FALSE, bytes |-> <<>>]

\* base64.StdEncoding.DecodeString: line breaks are skipped.
B64Decode(text) ==
  LET e == SelectSeq(text, LAMBDA u : u \notin {"\n", "\r"})
      quads == [g \in 1..(Len(e) \div 4) |-> B64Quad(e, g)]
      bytes == Flatten([g \in 1..Len(quads) |-> quads[g].bytes])
  IN IF Len(e) % 4 = 0 /\ \A g \in 1..Len(quads) : quads[g].ok
     THEN [err |-> FALSE, data |-> [i \in 1..Len(bytes) |-> UnitOf(bytes[i])]]
     ELSE [err |-> TRUE, data |-> <<>>]

(***************************************************************************)
(* The renderers and the parsers of a ContextBundle.                       *)
(***************************************************************************)
\* Time.Format("2006-01-02 15:04:05") of an instant, one unit.
StampText ==
  << "0001-01-01 00:00:00", "D+1", "D+2", "D+3", "D+4", "D+5" >>

VersionSentinel == "<!-- handoff-bundle-version: 1 -->"

DataPrefix == "<!-- handoff-data: "

DataSuffix == " -->"

\* JSONRenderer.Render
JSONRender(b) == MarshalIndent("ContextBundle", b)

\* The six sections MarkdownRenderer.Render writes after the title.
MdSummary(b) ==
  << "## Summary\n\n", "- Duration: " >> \o b.session.duration \o << "\n" >>
  \o (IF Len(b.session.author) # 0
      THEN << "- Author: " >> \o b.session.author \o << "\n" >> ELSE <<>>)
  \o (IF Len(b.git) # 0
      THEN << "- Branch: " >> \o b.git[1].branch \o << "\n" >>
           \o << "- Head commit: " >> \o b.git[1].head_commit \o << "\n" >>
      ELSE <<>>)
  \o << "\n" >>

MdAnnotations(b) ==
  << "## Annotations\n\n" >>
  \o (IF Len(b.annotations.items) = 0 THEN << "_No annotations._\n" >>
      ELSE Flatten([i \in 1..Len(b.annotations.items) |->
             LET a == b.annotations.items[i] IN
             << "- [", StampText[a.timestamp + 1], "] (",
                IF a.is_summary THEN "summary" ELSE "note", ") " >>
             \o a.message \o << "\n" >>]))
  \o << "\n" >>

MdFileEdits(b) ==
  << "## File Edits\n\n" >>
  \o (IF Len(b.file_edits.items) = 0 THEN << "_No file edits recorded._\n" >>
      ELSE << "| Path | Last Modified |\n", "|------|---------------|\n" >>
           \o Flatten([i \in 1..Len(b.file_edits.items) |->
                LET fe == b.file_edits.items[i] IN
                << "| " >> \o fe.path
                \o << " | ", StampText[fe.timestamp + 1], " |\n" >>]))
  \o << "\n" >>

MdDiff(diff, none) ==
  IF Len(diff) = 0 THEN << none >>
  ELSE << "[fence]diff\n" >> \o diff
       \o (IF diff[Len(diff)] # "\n" THEN << "\n" >> ELSE <<>>)
       \o << "[fence]\n" >>

\* A renderer that leaves the Git Changes section out of a bundle without
\* GitInfo.
MdGitIfAny(b) ==
  IF Len(b.git) = 0 THEN <<>>
  ELSE << "## Git Changes\n\n", "### Unstaged\n\n" >>
       \o MdDiff(b.git[1].diff, "_No unstaged changes._\n") \o << "\n" >>
       \o << "### Staged\n\n" >>
       \o MdDiff(b.git[1].staged_diff, "_No staged changes._\n") \o << "\n", "\n" >>

MdGit(b) ==
  << "## Git Changes\n\n" >>
  \o (IF Len(b.git) = 0
      THEN << "_Not a git repository or git data unavailable._\n" >>
      ELSE << "### Unstaged\n\n" >>
           \o MdDiff(b.git[1].diff, "_No unstaged changes._\n") \o << "\n" >>
           \o << "### Staged\n\n" >>
           \o MdDiff(b.git[1].staged_diff, "_No staged changes._\n") \o << "\n" >>
           \o << "### Recent Commits\n\n" >>
           \o (IF Len(b.git[1].recent_log.items) = 0
               THEN << "_No recent commits._\n" >>
               ELSE Flatten([i \in 1..Len(b.git[1].recent_log.items) |->
                      << "- " >> \o b.git[1].recent_log.items[i] \o << "\n" >>])))
  \o << "\n" >>

MdCommands(b) ==
  << "## Terminal Commands\n\n" >>
  \o (IF Len(b.commands.items) = 0 THEN << "_No terminal commands recorded._\n" >>
      ELSE Flatten([i \in 1..Len(b.commands.items) |->
             IntText(i) \o << ". [tick]" >> \o b.commands.items[i].raw \o << "[tick]\n" >>]))
  \o << "\n" >>

MdEditorTabs(b) ==
  << "## Editor Tabs\n\n" >>
  \o (IF Len(b.editor_tabs.items) = 0 THEN << "_No editor tabs recorded._\n" >>
      ELSE Flatten([i \in 1..Len(b.editor_tabs.items) |->
             << "- " >> \o b.editor_tabs.items[i] \o << "\n" >>]))
  \o << "\n" >>

\* MarkdownRenderer.Render: the sentinel, the base64 of the JSON, the title
\* (its long dashes written "--" here, a backquote "[tick]", a code fence
\* "[fence]") and the six sections.
MarkdownRender(b) ==
  LET m == Marshal("ContextBundle", b) IN
  IF m.err THEN [err |-> TRUE, data |-> <<>>]
  ELSE [err |-> FALSE,
        data |->
          << VersionSentinel, "\n", DataPrefix >> \o B64Encode(m.data)
          \o << DataSuffix, "\n", "\n" >>
          \o << "# Handoff -- " >> \o b.session.work_dir
          \o << " -- ", StampText[b.session.stop_time + 1], " MST", "\n", "\n" >>
          \o MdSummary(b) \o MdAnnotations(b) \o MdFileEdits(b) \o MdGit(b)
          \o MdCommands(b) \o MdEditorTabs(b)]

\* JSONParser.Parse
JSONParse(data) == Unmarshal("ContextBundle", data)

\* strings.Index of a unit: the first place it stands at, or 0.
IndexOf(content, u) ==
  IF \E i \in 1..Len(content) : content[i] = u
  THEN CHOOSE i \in 1..Len(content) :
         content[i] = u /\ \A j \in 1..(i - 1) : content[j] # u
  ELSE 0

\* A parser that does not ask for the version sentinel.
MarkdownParseUnversioned(content) ==
  LET bad == [err |-> TRUE, v |-> Zero("ContextBundle")]
      start == IndexOf(content, DataPrefix)
      rest == SubSeq(content, start + 1, Len(content))
      end == IndexOf(rest, DataSuffix)
      jsonBytes == B64Decode(SubSeq(rest, 1, end - 1))
  IN IF start = 0 \/ end = 0 \/ jsonBytes.err THEN bad
     ELSE Unmarshal("ContextBundle", jsonBytes.data)

\* A parser that reads the last data comment of the document.
MarkdownParseLast(content) ==
  LET bad == [err |-> TRUE, v |-> Zero("ContextBundle")]
      start == IF \E i \in 1..Len(content) : content[i] = DataPrefix
               THEN CHOOSE i \in 1..Len(content) :
                      /\ content[i] = DataPrefix
                      /\ \A j \in (i + 1)..Len(content) : content[j] # DataPrefix
               ELSE 0
      rest == SubSeq(content, start + 1, Len(content))
      end == IndexOf(rest, DataSuffix)
      jsonBytes == B64Decode(SubSeq(rest, 1, end - 1))
  IN IF IndexOf(content, VersionSentinel) = 0 \/ start = 0 \/ end = 0 \/ jsonBytes.err
     THEN bad
     ELSE Unmarshal("ContextBundle", jsonBytes.data)

\* MarkdownParser.Parse
MarkdownParse(content) ==
  LET bad == [err |-> TRUE, v |-> Zero("ContextBundle")]
      start == IndexOf(content, DataPrefix)
      rest == SubSeq(content, start + 1, Len(content))
      end == IndexOf(rest, DataSuffix)
      encoded == SubSeq(rest, 1, end - 1)
      jsonBytes == B64Decode(encoded)
  IN IF IndexOf(content, VersionSentinel) = 0 THEN bad
     ELSE IF start = 0 THEN bad
     ELSE IF end = 0 THEN bad
     ELSE IF jsonBytes.err THEN bad
     ELSE Unmarshal("ContextBundle", jsonBytes.data)

(***************************************************************************)
(* The session store: diskStore over the data directory.  A file is an     *)
(* inode: "content" is what it holds now, "whole" the bytes that the Save  *)
(* which created it set out to write and "saved" the session given to that *)
(* Save (nil for a file no Save created).  A reader keeps the inode it     *)
(* opened even when session.json is renamed over or removed meanwhile.     *)
(***************************************************************************)
Procs == 1..MaxProcs

WorkDir == << "/w" >>

\* uuid.New().String(), by the number of the invocation that draws it.
UUIDText == << "uuid-1", "uuid-2", "uuid-3", "uuid-4", "uuid-5", "uuid-6" >>

\* What Load opened: nothing, or a file created to hold "whole".
NoFile == [present |-> FALSE, whole |-> <<>>, saved |-> NilPtr]

\* A process slot: the command and where it is in it (pc), its arguments,
\* its local variables, and what it did: the file Load opened (from) and
\* the bytes it read (got), the number of times it replaced or removed
\* session.json (writes), the output file it wrote (written, out), the
\* warnings it printed (reported), and of status the message (printed) or
\* the numbers of annotations and file edits (counts) it printed.
IdleProc ==
  [cmd |-> "idle", pc |-> "idle", result |-> "",
   n |-> 0, arg |-> <<>>, format |-> "", profile |-> NilPtr, machine |-> "",
   fd |-> 0, tmp |-> 0, data |-> <<>>, from |-> NoFile, got |-> <<>>,
   s |-> Zero("Session"), found |-> FALSE, lerr |-> "",
   now |-> 0, ran |-> <<>>,
   edits |-> NilSlice, commands |-> NilSlice, tabs |-> NilSlice,
   git |-> NilPtr, warnings |-> <<>>,
   bundle |-> Zero("ContextBundle"), out |-> <<>>, written |-> FALSE,
   reported |-> <<>>, printed |-> <<>>, counts |-> <<>>, writes |-> 0]

\* The inodes still referred to: by session.json, by a temp file name or by
\* an open read handle.  The others are gone.
Live(ino, sf, pr) ==
  [i \in {j \in DOMAIN ino : j = sf \/ \E p \in Procs : pr[p].fd = j \/ pr[p].tmp = j}
     |-> ino[i]]

FreshInode(ino) == CHOOSE i \in 1..(Cardinality(DOMAIN ino) + 1) : i \notin DOMAIN ino

\* The first half of what a write puts into a file.
FirstPart(data) == SubSeq(data, 1, Len(data) \div 2)

\* A command that ends: what RunE returns ("ok" for nil) is its result.
Finish(pr, p, result) ==
  [pr EXCEPT ![p].pc = "done", ![p].result = result]

\* diskStore.Load, os.ReadFile opening session.json: ErrNoSession when the
\* file does not exist.
Open(p) ==
  /\ proc[p].pc = "load"
  /\ IF sessionFile = 0
     THEN proc' = [proc EXCEPT ![p].lerr = "no active session", ![p].pc = "loaded"]
     ELSE proc' = [proc EXCEPT ![p].fd = sessionFile,
                               ![p].from = [present |-> TRUE,
                                            whole |-> inode[sessionFile].whole,
                                            saved |-> inode[sessionFile].saved],
                               ![p].pc = "read"]
  /\ UNCHANGED << inode, sessionFile, clock, launched, cmdLog, rt >>

\* What Load leaves process p with: the bytes it read and u, the result of
\* json.Unmarshal on them.
Loaded(p, data, u) ==
  [proc EXCEPT ![p].fd = 0, ![p].got = data, ![p].pc = "loaded",
               ![p].lerr = IF u.err THEN "failed to parse session state" ELSE "",
               ![p].found = ~u.err,
               ![p].s = u.v]

\* diskStore.Load, reading the opened file and json.Unmarshal of it.
Read(p) ==
  /\ proc[p].pc = "read"
  /\ proc' = Loaded(p, inode[proc[p].fd].content,
                    Unmarshal("Session", inode[proc[p].fd].content))
  /\ inode' = Live(inode, sessionFile, proc')
  /\ UNCHANGED << sessionFile, clock, launched, cmdLog, rt >>

\* diskStore.Save up to os.CreateTemp, as the last part of the step of
\* process p that leaves it as pr: the session is marshalled and an empty
\* temp file is created beside session.json.  A session that cannot be
\* marshalled ends the command with the error, unless the caller ignores it.
CreateTemp(pr, p, s, m, t, ignoreErr) ==
  IF m.err
  THEN /\ proc' = Finish(pr, p, IF ignoreErr THEN "ok"
                                ELSE "failed to persist session state")
       /\ UNCHANGED << inode, sessionFile >>
  ELSE /\ proc' = [pr EXCEPT ![p].pc = "write", ![p].tmp = t, ![p].data = m.data]
       /\ inode' = inode @@ (t :> [content |-> <<>>, whole |-> m.data,
                                   saved |-> PtrTo(s)])
       /\ UNCHANGED sessionFile

\* A Save that writes session.json in place: the file is created under its
\* own name and filled afterwards.
SaveInPlace(pr, p, s, ignoreErr) ==
  IF Marshal("Session", s).err
  THEN /\ proc' = Finish(pr, p, IF ignoreErr THEN "ok"
                                ELSE "failed to persist session state")
       /\ UNCHANGED << inode, sessionFile >>
  ELSE /\ proc' = [pr EXCEPT ![p].pc = "write", ![p].tmp = FreshInode(inode),
                             ![p].data = Marshal("Session", s).data]
       /\ sessionFile' = FreshInode(inode)
       /\ inode' = Live(inode @@ (FreshInode(inode) :>
                                   [content |-> <<>>,
                                    whole |-> Marshal("Session", s).data,
                                    saved |-> PtrTo(s)]),
                        FreshInode(inode), proc')

SaveCreateTemp(pr, p, s, ignoreErr) ==
  CreateTemp(pr, p, s, Marshal("Session", s), FreshInode(inode), ignoreErr)

\* diskStore.Save, tmp.Write: the bytes reach the temp file in two parts.
Write(p) ==
  /\ proc[p].pc = "write"
  /\ LET t == proc[p].tmp
         data == proc[p].data
         content == IF inode[t].content = <<>> /\ Len(data) >= 2
                    THEN FirstPart(data) ELSE data
     IN /\ inode' = [inode EXCEPT ![t].content = content]
        /\ proc' = [proc EXCEPT ![p].pc = IF content = data THEN "rename" ELSE "write"]
  /\ UNCHANGED << sessionFile, clock, launched, cmdLog, rt >>

\* diskStore.Save, tmp.Close and os.Rename(tmpName, d.path); the command
\* then ends: start and note print their message, the watcher goes back to
\* waiting for events.
Rename(p) ==
  /\ proc[p].pc = "rename"
  /\ LET pr == Finish([proc EXCEPT ![p].tmp = 0, ![p].data = <<>>,
                                   ![p].writes = @ + 1], p, "ok")
     IN /\ proc' = pr
        /\ sessionFile' = proc[p].tmp
        /\ inode' = Live(inode, proc[p].tmp, pr)
  /\ UNCHANGED << clock, launched, cmdLog, rt >>

(***************************************************************************)
(* The commands.  An invocation is launched, in a free slot or in place of  *)
(* one that ended; it loads the session (Open, Read) and goes on from pc   *)
(* "loaded" as its RunE does.                                              *)
(***************************************************************************)
Launch(p, cmd, arg, format, profile, machine) ==
  /\ proc[p].pc \in {"idle", "done"}
  /\ \A q \in 1..(p - 1) : proc[q].pc # "idle"
  /\ launched < MaxInvocations
  /\ launched' = launched + 1
  /\ proc' = [proc EXCEPT ![p] = [IdleProc EXCEPT !.cmd = cmd, !.pc = "load",
                                    !.n = launched + 1, !.arg = arg,
                                    !.format = format, !.profile = profile,
                                    !.machine = machine]]
  /\ UNCHANGED << inode, sessionFile, clock, cmdLog, rt >>

\* What note and stop return when Load failed.
LoadFailure(p) ==
  IF proc[p].lerr = "no active session" THEN "no active session"
  ELSE proc[p].lerr

\* The messages given to note.
Messages == {<< "a" >>}

\* SnapshotHistoryBaseline: the number of commands in the history file
\* when the session starts.
Baselines == {1}

LaunchStart(p) == Launch(p, "start", <<>>, "", NilPtr, "")

\* The session startCmd creates.
newSession(p, baseline) ==
  [id |-> << UUIDText[proc[p].n] >>,
   start_time |-> clock,
   stop_time |-> NilPtr,
   work_dir |-> WorkDir,
   annotations |-> Slice(<<>>),
   file_edits |-> Slice(<<>>),
   history_baseline_count |-> baseline]

\* A start that does not look at what Load returned.
StartOverwrites(p) ==
  /\ proc[p].cmd = "start" /\ proc[p].pc = "loaded"
  /\ \E baseline \in Baselines :
       SaveCreateTemp(proc, p, newSession(p, baseline), FALSE)
  /\ UNCHANGED << clock, launched, cmdLog, rt >>

\* startCmd after Load: a parse error is returned, a session found is
\* "session already in progress", otherwise the new session is saved.
Start(p) ==
  /\ proc[p].cmd = "start" /\ proc[p].pc = "loaded"
  /\ IF proc[p].lerr = "failed to parse session state"
     THEN /\ proc' = Finish(proc, p, proc[p].lerr)
          /\ UNCHANGED << inode, sessionFile >>
     ELSE IF proc[p].found
     THEN /\ proc' = Finish(proc, p, "session already in progress")
          /\ UNCHANGED << inode, sessionFile >>
     ELSE \E baseline \in Baselines :
            SaveCreateTemp(proc, p, newSession(p, baseline), FALSE)
  /\ UNCHANGED << clock, launched, cmdLog, rt >>

LaunchNote(p) == \E m \in Messages : Launch(p, "note", m, "", NilPtr, "")

\* The session with the note appended.
Annotated(s, now, message, summary) ==
  [s EXCEPT !.annotations =
     GoAppend(@, << [timestamp |-> now, message |-> message,
                     is_summary |-> summary] >>)]

\* A note that starts a session when there is none.
NoteCreates(p) ==
  /\ proc[p].cmd = "note" /\ proc[p].pc = "loaded"
  /\ SaveCreateTemp(proc, p, Annotated(proc[p].s, clock, proc[p].arg, FALSE), FALSE)
  /\ UNCHANGED << clock, launched, cmdLog, rt >>

\* noteCmd after Load: the annotation is appended and the session saved.
Note(p) ==
  /\ proc[p].cmd = "note" /\ proc[p].pc = "loaded"
  /\ IF proc[p].lerr # ""
     THEN /\ proc' = Finish(proc, p, LoadFailure(p))
          /\ UNCHANGED << inode, sessionFile >>
     ELSE SaveCreateTemp(
            [proc EXCEPT ![p].s = Annotated(proc[p].s, clock, proc[p].arg, FALSE)],
            p, Annotated(proc[p].s, clock, proc[p].arg, FALSE), FALSE)
  /\ UNCHANGED << clock, launched, cmdLog, rt >>

LaunchStatus(p) == Launch(p, "status", <<>>, "", NilPtr, "")

\* A status that starts a session when there is none.
StatusCreates(p) ==
  /\ proc[p].cmd = "status" /\ proc[p].pc = "loaded"
  /\ IF proc[p].lerr = "no active session"
     THEN SaveCreateTemp([proc EXCEPT ![p].printed = << "no active session" >>],
                         p, newSession(p, 0), FALSE)
     ELSE /\ proc' = Finish(proc, p, proc[p].lerr)
          /\ UNCHANGED << inode, sessionFile >>
  /\ UNCHANGED << clock, launched, cmdLog, rt >>

\* statusCmd after Load: it prints "no active session" or the counts, and
\* returns the error of a record that does not parse.
Status(p) ==
  /\ proc[p].cmd = "status" /\ proc[p].pc = "loaded"
  /\ proc' = IF proc[p].lerr = "no active session"
             THEN Finish([proc EXCEPT ![p].printed = << "no active session" >>],
                         p, "ok")
             ELSE IF proc[p].lerr # "" THEN Finish(proc, p, proc[p].lerr)
             ELSE Finish([proc EXCEPT ![p].counts =
                            << Len(proc[p].s.annotations.items),
                               Len(proc[p].s.file_edits.items) >>], p, "ok")
  /\ UNCHANGED << inode, sessionFile, clock, launched, cmdLog, rt >>

\* The files whose Write and Create events reach the watcher.
WatchedPaths == {<< "/w", "/", "a" >>}

\* Watch receiving an event for a path that is not ignored.
LaunchWatchEvent(p) == \E path \in WatchedPaths : Launch(p, "watch", path, "", NilPtr, "")

\* The session with the edit appended.
Edited(s, now, path) ==
  [s EXCEPT !.file_edits =
     GoAppend(@, << [path |-> path, timestamp |-> now, diff |-> <<>>] >>)]

\* A watcher that records the edit whatever Load returned.
WatchEventResets(p) ==
  /\ proc[p].cmd = "watch" /\ proc[p].pc = "loaded"
  /\ SaveCreateTemp(proc, p, Edited(proc[p].s, clock, proc[p].arg), TRUE)
  /\ UNCHANGED << clock, launched, cmdLog, rt >>

\* Watch after Load: on an error the event is dropped; otherwise the edit
\* is appended and saved, and a Save error is ignored.
WatchEvent(p) ==
  /\ proc[p].cmd = "watch" /\ proc[p].pc = "loaded"
  /\ IF proc[p].lerr # ""
     THEN /\ proc' = Finish(proc, p, "ok")
          /\ UNCHANGED << inode, sessionFile >>
     ELSE SaveCreateTemp(
            [proc EXCEPT ![p].s = Edited(proc[p].s, clock, proc[p].arg)],
            p, Edited(proc[p].s, clock, proc[p].arg), TRUE)
  /\ UNCHANGED << clock, launched, cmdLog, rt >>

(***************************************************************************)
(* The collectors.  A collector returns [err, r]: whether it failed, and   *)
(* its CollectorResult.  What it reads of the machine (the work tree, the  *)
(* ignore files, the history, git, the editors) is an argument.            *)
(***************************************************************************)
CollectorResult ==
  [FileEdits |-> NilSlice, Commands |-> NilSlice, GitInfo |-> NilPtr,
   EditorTabs |-> NilSlice, Warnings |-> <<>>]

Collected(r) == [err |-> FALSE, r |-> r]

CollectFailed == [err |-> TRUE, r |-> CollectorResult]

\* A slice built by appending to a nil slice.
Appended(items) == GoAppend(NilSlice, items)

HasPrefix(str, pre) ==
  Len(str) >= Len(pre) /\ SubSeq(str, 1, Len(pre)) = pre

\* The units that end in a path separator.
SeparatorUnits == {"/", "./"}

\* strings.Split(str, sep) for a one-unit separator.
RECURSIVE Split(_, _)
Split(str, sep) ==
  IF \E i \in 1..Len(str) : str[i] = sep
  THEN LET i == IndexOf(str, sep)
       IN << SubSeq(str, 1, i - 1) >> \o Split(SubSeq(str, i + 1, Len(str)), sep)
  ELSE << str >>

\* strings.Fields
Fields(str) == SelectSeq(Split(str, " "), LAMBDA f : Len(f) > 0)

\* strings.TrimSpace
RECURSIVE TrimSpace(_)
TrimSpace(str) ==
  IF Len(str) = 0 THEN str
  ELSE IF Head(str) \in {" ", "\n"} THEN TrimSpace(Tail(str))
  ELSE IF str[Len(str)] \in {" ", "\n"} THEN TrimSpace(SubSeq(str, 1, Len(str) - 1))
  ELSE str

\* filepath.Base: what follows the last separator.
RECURSIVE Base(_)
Base(path) ==
  IF \E i \in 1..Len(path) : path[i] \in SeparatorUnits
  THEN Base(Tail(path))
  ELSE path

\* filepath.Rel(workDir, path) for a path under workDir; the path itself
\* stands for the other results.
Rel(workDir, path) ==
  IF HasPrefix(path, workDir \o << "/" >>)
  THEN SubSeq(path, Len(workDir) + 2, Len(path))
  ELSE path

\* filepath.Match: "*" matches any run of units that are not separators,
\* every other unit matches itself.
RECURSIVE GlobMatch(_, _)
GlobMatch(pattern, name) ==
  IF Len(pattern) = 0 THEN Len(name) = 0
  ELSE IF Head(pattern) = "*"
  THEN \E k \in 0..Len(name) :
         /\ \A j \in 1..k : name[j] \notin SeparatorUnits /\ name[j] # "/w"
         /\ GlobMatch(Tail(pattern), SubSeq(name, k + 1, Len(name)))
  ELSE /\ Len(name) > 0
       /\ Head(name) = Head(pattern)
       /\ GlobMatch(Tail(pattern), Tail(name))

\* FileCollector.isIgnored
isIgnored(fc, path, patterns) ==
  \E i \in 1..Len(patterns) :
    \/ GlobMatch(patterns[i], Base(path))
    \/ GlobMatch(patterns[i], Rel(fc.WorkDir, path))
    \/ GlobMatch(patterns[i], path)

\* readPatternFile: the lines of the file, trimmed, that are neither empty
\* nor comments.
readPatternFile(lines) ==
  SelectSeq([i \in 1..Len(lines) |-> TrimSpace(lines[i])],
            LAMBDA l : Len(l) > 0 /\ Head(l) # "#")

\* FileCollector.loadIgnorePatterns over .gitignore and .handoffignore,
\* each [state, lines], the state "absent", "unreadable" or "ok".
RECURSIVE loadIgnoreFiles(_, _)
loadIgnoreFiles(patterns, files) ==
  IF Len(files) = 0 THEN [err |-> FALSE, patterns |-> patterns]
  ELSE IF Head(files).state = "absent" THEN loadIgnoreFiles(patterns, Tail(files))
  ELSE IF Head(files).state = "unreadable" THEN [err |-> TRUE, patterns |-> patterns]
  ELSE loadIgnoreFiles(patterns \o readPatternFile(Head(files).lines), Tail(files))

loadIgnorePatterns(fc, files) == loadIgnoreFiles(fc.IgnorePatterns, files)

\* captureFileDiff: the diff git or the fallback gives for a file of the
\* work tree, nothing for a file that is not there.
captureFileDiff(path, tree) ==
  IF \E f \in tree : f.path = path
  THEN (CHOOSE f \in tree : f.path = path).diff
  ELSE <<>>

Max(S) == CHOOSE x \in S : \A y \in S : y <= x

\* The orders in which ranging over a map with these keys can visit them.
MapOrders(keys) ==
  {q \in [1..Cardinality(keys) -> keys] : \A i, j \in DOMAIN q : q[i] = q[j] => i = j}

\* FileCollector.Collect.  The map "latest" ends up holding, for each path,
\* the latest of the session's edits of it and of its mtime when that lies
\* in the session window; "order" is the order the map is ranged over.
FileCollect(fc, sess, now, files, tree, order) ==
  LET loaded == loadIgnorePatterns(fc, files)
      patterns == loaded.patterns
      stopTime == IF Len(sess.stop_time) = 0 THEN now ELSE sess.stop_time[1]
      seeds == {[path |-> sess.file_edits.items[i].path,
                 time |-> sess.file_edits.items[i].timestamp] :
                   i \in 1..Len(sess.file_edits.items)}
      walked == {[path |-> f.path, time |-> f.mtime] :
                   f \in {g \in tree : /\ ~isIgnored(fc, g.path, patterns)
                                       /\ ~(g.mtime < sess.start_time)
                                       /\ ~(g.mtime > stopTime)}}
      entries == seeds \cup walked
      latest == [path \in {e.path : e \in entries} |->
                   Max({e.time : e \in {x \in entries : x.path = path}})]
      kept == SelectSeq(order, LAMBDA path : ~isIgnored(fc, path, patterns))
      edits == [i \in 1..Len(kept) |->
                  [path |-> kept[i], timestamp |-> latest[kept[i]],
                   diff |-> captureFileDiff(kept[i], tree)]]
  IN IF loaded.err
     THEN Collected([CollectorResult EXCEPT
                       !.Warnings = << "failed to load ignore patterns" >>])
     ELSE Collected([CollectorResult EXCEPT !.FileEdits = Appended(edits)])

\* The keys of the map FileCollect ranges over.
LatestPaths(fc, sess, now, files, tree) ==
  LET loaded == loadIgnorePatterns(fc, files)
      stopTime == IF Len(sess.stop_time) = 0 THEN now ELSE sess.stop_time[1]
  IN {sess.file_edits.items[i].path : i \in 1..Len(sess.file_edits.items)}
     \cup {f.path : f \in {g \in tree : /\ ~isIgnored(fc, g.path, loaded.patterns)
                                        /\ ~(g.mtime < sess.start_time)
                                        /\ ~(g.mtime > stopTime)}}

maxNoTimestampCommands == 50

handoffNoiseCommands == {<< "start" >>, << "stop" >>}

\* A noise test that compares the whole first word with the binary's name.
isHandoffNoiseBare(raw) ==
  LET fields == Fields(raw)
  IN /\ Len(fields) >= 2
     /\ fields[1] = << "handoff" >>
     /\ fields[2] \in handoffNoiseCommands

isHandoffNoise(raw) ==
  LET fields == Fields(raw)
  IN /\ Len(fields) >= 2
     /\ Base(fields[1]) = << "handoff" >>
     /\ fields[2] \in handoffNoiseCommands

\* A filter that keeps the first commands without a timestamp, not the
\* last.
filterCommandsHead(commands, start, stop, baselineCount) ==
  LET quiet == SelectSeq(commands, LAMBDA c : ~isHandoffNoise(c.raw))
      timestamped == SelectSeq(quiet, LAMBDA c : c.timestamp # 0)
      noTimestamp == SelectSeq(quiet, LAMBDA c : c.timestamp = 0)
      inWindow == SelectSeq(timestamped,
                    LAMBDA c : /\ ~(c.timestamp < start)
                               /\ ~(Len(stop) # 0 /\ c.timestamp > stop[1]))
      fresh == IF baselineCount > 0 /\ baselineCount < Len(noTimestamp)
               THEN SubSeq(noTimestamp, baselineCount + 1, Len(noTimestamp))
               ELSE IF baselineCount >= Len(noTimestamp) THEN <<>>
               ELSE noTimestamp
      head == IF Len(fresh) > maxNoTimestampCommands
              THEN SubSeq(fresh, 1, maxNoTimestampCommands)
              ELSE fresh
  IN [commands |-> Appended(inWindow \o head),
      warnings |-> (IF Len(noTimestamp) > 0 /\ baselineCount >= Len(noTimestamp)
                    THEN << "shell history was not flushed during session" >>
                    ELSE <<>>)
                   \o (IF Len(head) > 0 THEN << "shell history has no timestamps" >>
                       ELSE <<>>)]

\* filterCommands: [commands, warnings].
filterCommands(commands, start, stop, baselineCount) ==
  LET quiet == SelectSeq(commands, LAMBDA c : ~isHandoffNoise(c.raw))
      timestamped == SelectSeq(quiet, LAMBDA c : c.timestamp # 0)
      noTimestamp == SelectSeq(quiet, LAMBDA c : c.timestamp = 0)
      inWindow == SelectSeq(timestamped,
                    LAMBDA c : /\ ~(c.timestamp < start)
                               /\ ~(Len(stop) # 0 /\ c.timestamp > stop[1]))
      unflushed == Len(noTimestamp) > 0 /\ baselineCount >= Len(noTimestamp)
      fresh == IF baselineCount > 0 /\ baselineCount < Len(noTimestamp)
               THEN SubSeq(noTimestamp, baselineCount + 1, Len(noTimestamp))
               ELSE IF baselineCount >= Len(noTimestamp) THEN <<>>
               ELSE noTimestamp
      tail == IF Len(fresh) > maxNoTimestampCommands
              THEN SubSeq(fresh, Len(fresh) - maxNoTimestampCommands + 1, Len(fresh))
              ELSE fresh
  IN [commands |-> Appended(inWindow \o tail),
      warnings |-> (IF unflushed THEN << "shell history was not flushed during session" >>
                    ELSE <<>>)
                   \o (IF Len(tail) > 0 THEN << "shell history has no timestamps" >>
                       ELSE <<>>)]

\* ShellCollector.Collect: [err, r, log], log being the command log it
\* leaves.  history is [state, commands], the state "unavailable",
\* "unparsable" or "ok" with the commands the parser returns.
ShellCollect(sc, sess, log, history) ==
  IF sc.UsePluginLog /\ Len(log) > 0
  THEN LET f == filterCommands(log, sess.start_time, sess.stop_time, 0)
       IN [err |-> FALSE, log |-> <<>>,
           r |-> [CollectorResult EXCEPT !.Commands = f.commands,
                                         !.Warnings = f.warnings]]
  ELSE IF history.state = "unavailable"
  THEN [err |-> FALSE, log |-> log,
        r |-> [CollectorResult EXCEPT !.Warnings = << "shell history unavailable" >>]]
  ELSE IF history.state = "unparsable"
  THEN [err |-> FALSE, log |-> log,
        r |-> [CollectorResult EXCEPT !.Warnings = << "failed to parse shell history" >>]]
  ELSE LET f == filterCommands(history.commands, sess.start_time, sess.stop_time,
                               sess.history_baseline_count)
       IN [err |-> FALSE, log |-> log,
           r |-> [CollectorResult EXCEPT !.Commands = f.commands,
                                         !.Warnings = f.warnings]]

\* parseLogLines
parseLogLines(output) ==
  Slice(SelectSeq(Split(output, "\n"), LAMBDA l : Len(l) > 0))

\* A git collector that takes every failing query for "not a repository".
GitCollectLenient(answers) ==
  IF \E i \in 1..5 : answers[i].code # 0
  THEN Collected([CollectorResult EXCEPT !.Warnings = << "not a git repository" >>])
  ELSE Collected([CollectorResult EXCEPT !.GitInfo =
         PtrTo([branch |-> TrimSpace(answers[1].out),
                head_commit |-> TrimSpace(answers[2].out),
                diff |-> answers[3].out,
                staged_diff |-> answers[4].out,
                recent_log |-> parseLogLines(answers[5].out)])])

\* GitCollector.Collect over the answers of the runner to its five
\* queries, each [code, out]: code 0 is success, 128 "not a repository".
GitCollect(answers) ==
  IF answers[1].code = 128
  THEN Collected([CollectorResult EXCEPT !.Warnings = << "not a git repository" >>])
  ELSE IF \E i \in 1..5 : answers[i].code # 0 THEN CollectFailed
  ELSE Collected([CollectorResult EXCEPT !.GitInfo =
         PtrTo([branch |-> TrimSpace(answers[1].out),
                head_commit |-> TrimSpace(answers[2].out),
                diff |-> answers[3].out,
                staged_diff |-> answers[4].out,
                recent_log |-> parseLogLines(answers[5].out)])])

\* A filter that keeps every path beginning with the text of workDir.
filterToWorkDirByPrefix(paths, workDir) ==
  Appended(SelectSeq(paths, LAMBDA q : HasPrefix(q, workDir)))

\* filterToWorkDir
filterToWorkDir(paths, workDir) ==
  IF Len(workDir) = 0 THEN Appended(paths)
  ELSE LET prefix == IF workDir[Len(workDir)] = "/" THEN workDir
                     ELSE workDir \o << "/" >>
       IN Appended(SelectSeq(paths, LAMBDA q : q = workDir \/ HasPrefix(q, prefix)))

\* The tabs of the readers in turn, each tab once.
RECURSIVE mergeTabs(_, _)
mergeTabs(allTabs, tabs) ==
  IF Len(tabs) = 0 THEN allTabs
  ELSE IF \E i \in 1..Len(allTabs) : allTabs[i] = Head(tabs)
  THEN mergeTabs(allTabs, Tail(tabs))
  ELSE mergeTabs(allTabs \o << Head(tabs) >>, Tail(tabs))

\* EditorCollector.Collect over what the editor readers return, each
\* [tabs, warnings]; stored is what collectVSCodeFamily reads under
\* e.StateDir; homeErr: the home directory cannot be determined.
EditorCollect(e, sess, stored, homeErr, readings) ==
  IF Len(e.StateDir) # 0
  THEN Collected([CollectorResult EXCEPT
         !.EditorTabs = filterToWorkDir(stored.tabs, sess.work_dir),
         !.Warnings = IF Len(stored.tabs) = 0 /\ Len(stored.warnings) = 0
                      THEN << "VS Code workspace storage unavailable" >>
                      ELSE stored.warnings])
  ELSE IF homeErr
  THEN Collected([CollectorResult EXCEPT
                    !.Warnings = << "editor tab collection skipped" >>])
  ELSE LET allWarnings == Flatten([i \in 1..Len(readings) |-> readings[i].warnings])
           allTabs == filterToWorkDir(
                        mergeTabs(<<>>, Flatten([i \in 1..Len(readings) |-> readings[i].tabs])),
                        sess.work_dir)
       IN Collected([CollectorResult EXCEPT
            !.EditorTabs = allTabs,
            !.Warnings = allWarnings
                \o (IF Len(allTabs.items) = 0
                    THEN << "no open editor tabs found" >> ELSE <<>>)])

(***************************************************************************)
(* stop.  What the collectors find on the machine is chosen when each      *)
(* runs, from the cases below.                                             *)
(***************************************************************************)
\* --format, or cfg.DefaultFormat: "json", and Markdown for anything else.
Formats == {"json", "markdown"}

\* The flags and the configuration stop runs with; prof is no profile, or
\* one with a name and RecordCommands set.
StopFlags ==
  {[message |-> <<>>, format |-> "json", profile |-> NilPtr],
   [message |-> << "b" >>, format |-> "markdown",
    profile |-> PtrTo([Name |-> << "a" >>, RecordCommands |-> TRUE])]}

GitOk ==
  << [code |-> 0, out |-> << "a", "\n" >>], [code |-> 0, out |-> << "b", "\n" >>],
     [code |-> 0, out |-> <<>>], [code |-> 0, out |-> << "a" >>],
     [code |-> 0, out |-> << "b", "\n" >>] >>

NoReading == [tabs |-> <<>>, warnings |-> <<>>]

\* A developer's machine: a git work tree with an edited file, a shell
\* history without timestamps, and two editors with open tabs.
Workstation ==
  [files |-> << [state |-> "absent", lines |-> <<>>],
                [state |-> "absent", lines |-> <<>>] >>,
   tree |-> {[path |-> << "/w", "/", "b" >>, mtime |-> 1, diff |-> << "a" >>]},
   history |-> [state |-> "ok",
                commands |-> << [raw |-> << "a" >>, timestamp |-> 0],
                                [raw |-> << "b" >>, timestamp |-> 0] >>],
   git |-> GitOk,
   homeErr |-> FALSE,
   readings |-> << [tabs |-> << << "/w", "/", "a" >>, << "/w", "x", "/", "a" >> >>,
                    warnings |-> <<>>],
                   NoReading,
                   [tabs |-> << << "/w", "/", "a" >> >>, warnings |-> << "vim" >>],
                   NoReading >>]

\* A machine where nothing is available: an unreadable .gitignore, no
\* history file, no git repository, no home directory.
Bare ==
  [files |-> << [state |-> "unreadable", lines |-> <<>>],
                [state |-> "absent", lines |-> <<>>] >>,
   tree |-> {},
   history |-> [state |-> "unavailable", commands |-> <<>>],
   git |-> [GitOk EXCEPT ![1] = [code |-> 128, out |-> <<>>]],
   homeErr |-> TRUE,
   readings |-> << NoReading, NoReading, NoReading, NoReading >>]

\* The workstation with a git that fails.
BrokenGit == [Workstation EXCEPT !.git = [GitOk EXCEPT ![1] = [code |-> 1, out |-> <<>>]]]

Machines == {"Workstation", "Bare", "BrokenGit"}

Machine(name) ==
  CASE name = "Workstation" -> Workstation
    [] name = "Bare" -> Bare
    [] name = "BrokenGit" -> BrokenGit

\* time.Duration.String() of a whole number of seconds.
DurationText == << "0s", "1s", "2s", "3s", "4s", "5s" >>

LaunchStop(p) ==
  \E flags \in StopFlags, machine \in Machines :
    Launch(p, "stop", flags.message, flags.format, flags.profile, machine)

\* A stop that appends the summary annotation whether or not a message
\* was given.
StoppedAlwaysSummarised(s, now, message) ==
  Annotated([s EXCEPT !.stop_time = PtrTo(now)], now, message, TRUE)

\* The session as stopCmd holds it: the stop time set and, with --message,
\* the summary annotation appended.
Stopped(s, now, message) ==
  IF Len(message) # 0
  THEN Annotated([s EXCEPT !.stop_time = PtrTo(now)], now, message, TRUE)
  ELSE [s EXCEPT !.stop_time = PtrTo(now)]

\* A stop that saves the stopped session before it runs the collectors.
StopPersists(p) ==
  /\ proc[p].cmd = "stop" /\ proc[p].pc = "loaded"
  /\ IF proc[p].lerr # ""
     THEN /\ proc' = Finish(proc, p, LoadFailure(p))
          /\ UNCHANGED << inode, sessionFile >>
     ELSE /\ proc' = [proc EXCEPT ![p].now = clock,
                                  ![p].s = Stopped(proc[p].s, clock, proc[p].arg),
                                  ![p].writes = @ + 1,
                                  ![p].pc = "collect"]
          /\ sessionFile' = FreshInode(inode)
          /\ inode' = Live(inode @@ (FreshInode(inode) :>
                [content |-> Marshal("Session", Stopped(proc[p].s, clock, proc[p].arg)).data,
                 whole |-> Marshal("Session", Stopped(proc[p].s, clock, proc[p].arg)).data,
                 saved |-> PtrTo(Stopped(proc[p].s, clock, proc[p].arg))]),
                FreshInode(inode), proc')
  /\ UNCHANGED << clock, launched, cmdLog, rt >>

\* stopCmd after Load, up to the collectors: the stop time is set and the
\* summary annotation appended, in memory only.
Stop(p) ==
  /\ proc[p].cmd = "stop" /\ proc[p].pc = "loaded"
  /\ proc' = IF proc[p].lerr # ""
             THEN Finish(proc, p, LoadFailure(p))
             ELSE [proc EXCEPT ![p].now = clock,
                               ![p].s = Stopped(proc[p].s, clock, proc[p].arg),
                               ![p].pc = "collect"]
  /\ UNCHANGED << inode, sessionFile, clock, launched, cmdLog, rt >>

\* An order that begins with the git collector.
CollectorsGitFirst == << "Git", "File", "Shell", "Editor" >>

\* The order stop runs the collectors in.
Collectors == << "File", "Shell", "Git", "Editor" >>

\* What stop has merged so far: the collectors that ran, whether one
\* failed, their merged results, and the command log as they leave it.
NothingMerged(log) ==
  [ran |-> <<>>, failed |-> FALSE, edits |-> NilSlice, commands |-> NilSlice,
   tabs |-> NilSlice, git |-> NilPtr, warnings |-> <<>>, log |-> log]

\* c.Collect(ctx, s) for the collector of that name on the machine.
CollectBy(name, s, prof, machine, log, order) ==
  CASE name = "File" ->
         FileCollect([WorkDir |-> s.work_dir, IgnorePatterns |-> <<>>], s,
                     s.stop_time[1], machine.files, machine.tree, order)
           @@ [log |-> log]
    [] name = "Shell" ->
         ShellCollect([UsePluginLog |-> Len(prof) # 0 /\ prof[1].RecordCommands],
                      s, log, machine.history)
    [] name = "Git" -> GitCollect(machine.git) @@ [log |-> log]
    [] name = "Editor" ->
         EditorCollect([StateDir |-> <<>>], s, [tabs |-> <<>>, warnings |-> <<>>],
                       machine.homeErr, machine.readings) @@ [log |-> log]

\* One turn of the loop over the collectors: c is what the collector
\* returned; an error ends the loop, and otherwise the result is merged.
MergeResult(m, name, c) ==
  IF c.err
  THEN [m EXCEPT !.ran = @ \o << name >>, !.failed = TRUE]
  ELSE [m EXCEPT !.ran = @ \o << name >>,
                 !.edits = GoAppend(@, c.r.FileEdits.items),
                 !.commands = GoAppend(@, c.r.Commands.items),
                 !.tabs = GoAppend(@, c.r.EditorTabs.items),
                 !.warnings = @ \o c.r.Warnings,
                 !.git = IF Len(c.r.GitInfo) # 0 THEN c.r.GitInfo ELSE @,
                 !.log = c.log]

\* The loop over the collectors from the i-th on.
RECURSIVE RunCollectors(_, _, _, _, _, _)
RunCollectors(m, i, s, prof, machine, order) ==
  IF i > Len(Collectors) \/ m.failed THEN m
  ELSE RunCollectors(
         MergeResult(m, Collectors[i],
                     CollectBy(Collectors[i], s, prof, machine, m.log, order)),
         i + 1, s, prof, machine, order)

\* A stop that a warning ends like an error.
AbortOnWarnings(p, m) ==
  /\ proc' = IF m.failed \/ Len(m.warnings) # 0
             THEN Finish([proc EXCEPT ![p].ran = m.ran, ![p].warnings = m.warnings],
                         p, "collector error")
             ELSE [proc EXCEPT ![p].ran = m.ran, ![p].edits = m.edits,
                               ![p].commands = m.commands, ![p].tabs = m.tabs,
                               ![p].git = m.git, ![p].warnings = m.warnings,
                               ![p].pc = "render"]
  /\ cmdLog' = m.log

\* What the loop leaves stop with: "collector error" if a collector failed.
AfterCollectors(p, m) ==
  /\ proc' = IF m.failed
             THEN Finish([proc EXCEPT ![p].ran = m.ran], p, "collector error")
             ELSE [proc EXCEPT ![p].ran = m.ran, ![p].edits = m.edits,
                               ![p].commands = m.commands, ![p].tabs = m.tabs,
                               ![p].git = m.git, ![p].warnings = m.warnings,
                               ![p].pc = "render"]
  /\ cmdLog' = m.log

\* stopCmd running the collectors.
Collect(p) ==
  /\ proc[p].cmd = "stop" /\ proc[p].pc = "collect"
  /\ \E order \in MapOrders(LatestPaths(
                   [WorkDir |-> proc[p].s.work_dir, IgnorePatterns |-> <<>>],
                   proc[p].s, proc[p].s.stop_time[1],
                   Machine(proc[p].machine).files, Machine(proc[p].machine).tree)) :
       AfterCollectors(p, RunCollectors(NothingMerged(cmdLog), 1, proc[p].s,
                                        proc[p].profile, Machine(proc[p].machine),
                                        order))
  /\ UNCHANGED << inode, sessionFile, clock, launched, rt >>

\* The bundle stopCmd builds from session s, stopped at now.
BuildBundle(s, now, prof, edits, git, commands, tabs) ==
  [session |->
     [id |-> s.id, start_time |-> s.start_time, stop_time |-> now,
      work_dir |-> s.work_dir,
      duration |-> << DurationText[now - s.start_time + 1] >>,
      author |-> IF Len(prof) # 0 THEN prof[1].Name ELSE <<>>],
   annotations |-> s.annotations,
   file_edits |-> edits,
   git |-> git,
   commands |-> commands,
   editor_tabs |-> tabs]

\* renderer.Render(b) for the renderer the format selects.
RenderAs(format, b) ==
  IF format = "json" THEN JSONRender(b) ELSE MarkdownRender(b)

Rendered(p, b, rendered) ==
  IF rendered.err
  THEN Finish([proc EXCEPT ![p].bundle = b], p, "render bundle")
  ELSE [proc EXCEPT ![p].bundle = b, ![p].out = rendered.data, ![p].pc = "output"]

\* stopCmd building the bundle and rendering it.
Render(p) ==
  /\ proc[p].cmd = "stop" /\ proc[p].pc = "render"
  /\ proc' = Rendered(p,
       BuildBundle(proc[p].s, proc[p].now, proc[p].profile, proc[p].edits,
                   proc[p].git, proc[p].commands, proc[p].tabs),
       RenderAs(proc[p].format,
         BuildBundle(proc[p].s, proc[p].now, proc[p].profile, proc[p].edits,
                     proc[p].git, proc[p].commands, proc[p].tabs)))
  /\ UNCHANGED << inode, sessionFile, clock, launched, cmdLog, rt >>

\* A stop that deletes the session before it writes the output file.
DeleteThenWrite(p) ==
  /\ proc[p].cmd = "stop" /\ proc[p].pc = "output"
  /\ \E failed \in BOOLEAN :
       proc' = IF failed
               THEN Finish([proc EXCEPT ![p].out = <<>>, ![p].writes = @ + 1],
                           p, "write output file")
               ELSE [proc EXCEPT ![p].written = TRUE, ![p].writes = @ + 1,
                                 ![p].pc = "delete"]
  /\ sessionFile' = 0
  /\ inode' = Live(inode, 0, proc')
  /\ UNCHANGED << clock, launched, cmdLog, rt >>

\* os.WriteFile of the output file, which can fail.
WriteOutput(p) ==
  /\ proc[p].cmd = "stop" /\ proc[p].pc = "output"
  /\ \E failed \in BOOLEAN :
       proc' = IF failed THEN Finish([proc EXCEPT ![p].out = <<>>], p, "write output file")
               ELSE [proc EXCEPT ![p].written = TRUE, ![p].pc = "delete"]
  /\ UNCHANGED << inode, sessionFile, clock, launched, cmdLog, rt >>

\* store.Delete, which can fail, and then the warnings on stderr and the
\* closing message.
DeleteSession(p) ==
  /\ proc[p].cmd = "stop" /\ proc[p].pc = "delete"
  /\ \E failed \in BOOLEAN :
       IF failed
       THEN /\ proc' = Finish(proc, p, "failed to delete session state")
            /\ UNCHANGED << inode, sessionFile >>
       ELSE LET pr == Finish([proc EXCEPT ![p].reported = proc[p].warnings,
                                          ![p].writes = @ + 1], p, "ok")
            IN /\ proc' = pr
               /\ sessionFile' = 0
               /\ inode' = Live(inode, 0, pr)
  /\ UNCHANGED << clock, launched, cmdLog, rt >>

(***************************************************************************)
(* The surroundings, and the specification.                                *)
(***************************************************************************)
\* The process is at a step that calls time.Now().
ReadsClock(p) ==
  /\ proc[p].pc = "loaded"
  /\ \/ proc[p].cmd = "start" /\ proc[p].lerr = "no active session"
     \/ proc[p].cmd \in {"note", "stop", "watch"} /\ proc[p].lerr = ""

\* Time passes.  Only a command that is about to read the clock sees it.
Tick ==
  /\ clock < MaxClock
  /\ \E p \in Procs : ReadsClock(p)
  /\ clock' = clock + 1
  /\ UNCHANGED << inode, sessionFile, proc, launched, cmdLog, rt >>

\* The shell plugin logs a command the user ran.
\* Only a stop that is about to run the collectors, the shell collector on
\* the log, sees it.
LogCommand ==
  /\ Len(cmdLog) < MaxLog
  /\ \E p \in Procs : proc[p].pc = "collect" /\ Len(proc[p].profile) # 0
  /\ cmdLog' = Append(cmdLog, [raw |-> << "a" >>, timestamp |-> clock])
  /\ UNCHANGED << inode, sessionFile, proc, clock, launched, rt >>

\* A session as start writes it, and the records that are not one: an empty
\* file and a record cut short.
WrittenSession ==
  [id |-> << "uuid-6" >>, start_time |-> 1, stop_time |-> NilPtr,
   work_dir |-> WorkDir, annotations |-> Slice(<<>>), file_edits |-> Slice(<<>>),
   history_baseline_count |-> 0]

CorruptRecords == {<<>>, FirstPart(Marshal("Session", WrittenSession).data)}

\* No round trip is under test.
NoRoundTrip ==
  [kind |-> "none", stage |-> "", format |-> "", text |-> <<>>, err |-> FALSE,
   bundle |-> Zero("ContextBundle"), session |-> Zero("Session"),
   parsed |-> Zero("ContextBundle"), plain |-> <<>>]

Init ==
  /\ \/ /\ sessionFile = 0
        /\ inode = << >>
     \/ \E c \in CorruptRecords :
          /\ sessionFile = 1
          /\ inode = << [content |-> c, whole |-> c, saved |-> NilPtr] >>
  /\ proc = [p \in Procs |-> IdleProc]
  /\ clock = 1
  /\ launched = 0
  /\ cmdLog = <<>>
  /\ rt = NoRoundTrip

Next ==
  \/ \E p \in Procs :
       \/ LaunchStart(p) \/ LaunchNote(p) \/ LaunchStop(p) \/ LaunchStatus(p)
       \/ LaunchWatchEvent(p)
       \/ Open(p) \/ Read(p) \/ Write(p) \/ Rename(p)
       \/ Start(p) \/ Note(p) \/ Status(p) \/ WatchEvent(p)
       \/ Stop(p) \/ Collect(p) \/ Render(p) \/ WriteOutput(p) \/ DeleteSession(p)
  \/ Tick
  \/ LogCommand

Spec == Init /\ [][Next]_vars

(***************************************************************************)
(* The codecs on their own: a bundle is rendered and parsed back, a        *)
(* session is saved and loaded back.  The strings are those over Alphabet, *)
(* which has the characters JSON escapes, a character outside ASCII and a  *)
(* byte that is not valid UTF-8.                                           *)
(***************************************************************************)
Alphabet == << "a", "b", "\"", "\\", "\n", "<", "U+FFFD", "0xFF" >>

RECURSIVE StringsOfLen(_)
StringsOfLen(n) ==
  IF n = 0 THEN {<<>>}
  ELSE {Append(str, Alphabet[k]) : str \in StringsOfLen(n - 1), k \in DOMAIN Alphabet}

Strings == UNION {StringsOfLen(n) : n \in 0..MaxStrLen}

\* A bundle with every collection filled and a GitInfo, str in each kind
\* of place a string has; one with empty collections; one with nil ones.
FullBundle(str) ==
  [session |-> [id |-> << "uuid-1" >>, start_time |-> 1, stop_time |-> 2,
                work_dir |-> WorkDir, duration |-> << "1s" >>, author |-> str],
   annotations |-> Slice(<< [timestamp |-> 1, message |-> str, is_summary |-> FALSE],
                            [timestamp |-> 2, message |-> << "b" >>, is_summary |-> TRUE] >>),
   file_edits |-> Slice(<< [path |-> << "/w", "/", "a" >>, timestamp |-> 1, diff |-> str],
                           [path |-> str, timestamp |-> 2, diff |-> <<>>] >>),
   git |-> PtrTo([branch |-> << "a" >>, head_commit |-> << "b" >>, diff |-> str,
                  staged_diff |-> <<>>, recent_log |-> Slice(<< str, << "a" >> >>)]),
   commands |-> Slice(<< [raw |-> str, timestamp |-> 2], [raw |-> << "a" >>, timestamp |-> 0] >>),
   editor_tabs |-> Slice(<< << "/w", "/", "a" >>, str >>)]

EmptyBundle(str) ==
  [session |-> [id |-> str, start_time |-> 1, stop_time |-> 1,
                work_dir |-> WorkDir, duration |-> << "0s" >>, author |-> <<>>],
   annotations |-> Slice(<<>>), file_edits |-> Slice(<<>>),
   git |-> PtrTo([branch |-> str, head_commit |-> <<>>, diff |-> <<>>,
                  staged_diff |-> <<>>, recent_log |-> Slice(<<>>)]),
   commands |-> Slice(<<>>), editor_tabs |-> Slice(<<>>)]

NilBundle(str) ==
  [Zero("ContextBundle") EXCEPT !.session.work_dir = str]

Bundles ==
  UNION {{FullBundle(str), EmptyBundle(str), NilBundle(str)} : str \in Strings}

\* A session with edits and annotations and a stop time, and one as start
\* writes it.
FullSession(str) ==
  [id |-> << "uuid-1" >>, start_time |-> 1, stop_time |-> PtrTo(2), work_dir |-> str,
   annotations |-> Slice(<< [timestamp |-> 1, message |-> str, is_summary |-> FALSE],
                            [timestamp |-> 2, message |-> << "a" >>, is_summary |-> TRUE] >>),
   file_edits |-> Slice(<< [path |-> str, timestamp |-> 1, diff |-> <<>>],
                           [path |-> << "/w", "/", "a" >>, timestamp |-> 2, diff |-> str] >>),
   history_baseline_count |-> 1]

StartedSession(str) == [WrittenSession EXCEPT !.work_dir = str]

Sessions == UNION {{FullSession(str), StartedSession(str)} : str \in Strings}

InitCodec ==
  /\ sessionFile = 0
  /\ inode = << >>
  /\ proc = [p \in Procs |-> IdleProc]
  /\ clock = 1
  /\ launched = 0
  /\ cmdLog = <<>>
  /\ \/ \E b \in Bundles :
          rt = [NoRoundTrip EXCEPT !.kind = "bundle", !.stage = "input", !.bundle = b]
     \/ \E s \in Sessions :
          rt = [NoRoundTrip EXCEPT !.kind = "session", !.stage = "input", !.session = s]

\* indent: prefix before every line of s that is not empty.
indent(s, prefix) ==
  LET lines == Split(s, "\n")
  IN Join([i \in 1..Len(lines) |->
            IF Len(lines[i]) # 0 THEN prefix \o lines[i] ELSE lines[i]],
          << "\n" >>)

PlainSummary(b) ==
  << "## Summary\n", "  Work dir:  " >> \o b.session.work_dir \o << "\n" >>
  \o << "  Started:   ", StampText[b.session.start_time + 1], " MST", "\n" >>
  \o << "  Stopped:   ", StampText[b.session.stop_time + 1], " MST", "\n" >>
  \o << "  Duration:  " >> \o b.session.duration \o << "\n" >>
  \o (IF Len(b.git) # 0
      THEN << "  Branch:    " >> \o b.git[1].branch \o << "\n" >>
           \o << "  Commit:    " >> \o b.git[1].head_commit \o << "\n" >>
      ELSE <<>>)
  \o << "\n" >>

PlainAnnotations(b) ==
  << "## Annotations\n" >>
  \o (IF Len(b.annotations.items) = 0 THEN << "  (none)\n" >>
      ELSE Flatten([i \in 1..Len(b.annotations.items) |->
             LET a == b.annotations.items[i] IN
             << "  [", StampText[a.timestamp + 1], "] (",
                IF a.is_summary THEN "summary" ELSE "note", ") " >>
             \o a.message \o << "\n" >>]))
  \o << "\n" >>

PlainFileEdits(b) ==
  << "## File Edits\n" >>
  \o (IF Len(b.file_edits.items) = 0 THEN << "  (none)\n" >>
      ELSE Flatten([i \in 1..Len(b.file_edits.items) |->
             << "  " >> \o b.file_edits.items[i].path
             \o << "  (", StampText[b.file_edits.items[i].timestamp + 1], ")\n" >>]))
  \o << "\n" >>

PlainDiff(diff, title, none) ==
  IF Len(diff) # 0 THEN << title >> \o indent(diff, << "  " >>) \o << "\n" >>
  ELSE << none >>

PlainGit(b) ==
  << "## Git Changes\n" >>
  \o (IF Len(b.git) = 0
      THEN << "  (not a git repository or git data unavailable)\n" >>
      ELSE PlainDiff(b.git[1].diff, "  ### Unstaged\n", "  Unstaged: (none)\n")
           \o PlainDiff(b.git[1].staged_diff, "  ### Staged\n", "  Staged: (none)\n")
           \o (IF Len(b.git[1].recent_log.items) > 0
               THEN << "  ### Recent Commits\n" >>
                    \o Flatten([i \in 1..Len(b.git[1].recent_log.items) |->
                         << "    " >> \o b.git[1].recent_log.items[i] \o << "\n" >>])
               ELSE <<>>))
  \o << "\n" >>

PlainCommands(b) ==
  << "## Terminal Commands\n" >>
  \o (IF Len(b.commands.items) = 0 THEN << "  (none)\n" >>
      ELSE Flatten([i \in 1..Len(b.commands.items) |->
             << "  " >> \o IntText(i) \o << ". " >> \o b.commands.items[i].raw
             \o << "\n" >>]))
  \o << "\n" >>

PlainEditorTabs(b) ==
  << "## Editor Tabs\n" >>
  \o (IF Len(b.editor_tabs.items) = 0 THEN << "  (none)\n" >>
      ELSE Flatten([i \in 1..Len(b.editor_tabs.items) |->
             << "  " >> \o b.editor_tabs.items[i] \o << "\n" >>]))
  \o << "\n" >>

\* printBundle: what view --plain writes to stdout.
printBundle(b) ==
  PlainSummary(b) \o PlainAnnotations(b) \o PlainFileEdits(b) \o PlainGit(b)
  \o PlainCommands(b) \o PlainEditorTabs(b)

\* What view makes of the file: it fails when the parser does, and
\* otherwise prints the bundle parsed.
Viewed(parsed) ==
  IF parsed.err THEN [rt EXCEPT !.stage = "viewed", !.err = TRUE]
  ELSE [rt EXCEPT !.stage = "viewed", !.err = FALSE, !.parsed = parsed.v,
                  !.plain = printBundle(parsed.v)]

\* view --plain <file> on the file rendered: the parser its extension
\* names, then printBundle.
ViewPlain ==
  /\ rt.kind = "bundle" /\ rt.stage = "rendered" /\ ~rt.err
  /\ rt' = Viewed(IF rt.format = "json" THEN JSONParse(rt.text)
                  ELSE MarkdownParse(rt.text))
  /\ UNCHANGED << inode, sessionFile, proc, clock, launched, cmdLog >>

RenderedAs(format, rendered) ==
  [rt EXCEPT !.stage = "rendered", !.format = format, !.text = rendered.data,
             !.err = rendered.err]

\* renderer.Render(b), for either renderer.
RenderBundle ==
  /\ rt.kind = "bundle" /\ rt.stage = "input"
  /\ \E format \in Formats : rt' = RenderedAs(format, RenderAs(format, rt.bundle))
  /\ UNCHANGED << inode, sessionFile, proc, clock, launched, cmdLog >>

ParsedAs(parsed) ==
  [rt EXCEPT !.stage = "parsed", !.err = parsed.err, !.parsed = parsed.v]

\* parser.Parse(data), for the parser of the format rendered.
ParseBundle ==
  /\ rt.kind = "bundle" /\ rt.stage = "rendered" /\ ~rt.err
  /\ rt' = ParsedAs(IF rt.format = "json" THEN JSONParse(rt.text)
                    ELSE MarkdownParse(rt.text))
  /\ UNCHANGED << inode, sessionFile, proc, clock, launched, cmdLog >>

\* store.Save(s) begins; Write and Rename complete it.
SaveRecord ==
  /\ rt.kind = "session" /\ rt.stage = "input"
  /\ SaveCreateTemp([proc EXCEPT ![1].cmd = "save"], 1, rt.session, FALSE)
  /\ rt' = [rt EXCEPT !.stage = "saved"]
  /\ UNCHANGED << clock, launched, cmdLog >>

\* store.Load() begins once Save has returned; Open and Read complete it.
LoadRecord ==
  /\ rt.kind = "session" /\ rt.stage = "saved"
  /\ proc[1].pc = "done" /\ proc[1].result = "ok"
  /\ proc' = [proc EXCEPT ![1] = [IdleProc EXCEPT !.cmd = "load", !.pc = "load"]]
  /\ rt' = [rt EXCEPT !.stage = "loaded"]
  /\ UNCHANGED << inode, sessionFile, clock, launched, cmdLog >>

NextCodec ==
  \/ RenderBundle
  \/ ParseBundle
  \/ ViewPlain
  \/ SaveRecord
  \/ LoadRecord
  \/ Write(1)
  \/ Rename(1)
  \/ Open(1)
  \/ Read(1)

SpecCodec == InitCodec /\ [][NextCodec]_vars

\* C1: every bundle that is rendered, as JSON or as Markdown, and parsed
\* back is parsed without error into a bundle equal to the one rendered, in
\* every field and in the order of every list.
C1_RenderThenParse ==
  (rt.kind = "bundle" /\ rt.stage # "input") =>
    /\ ~rt.err
    /\ rt.stage = "parsed" => rt.parsed = rt.bundle

\* C2: every session that is saved and then loaded, with no other write in
\* between, is loaded without error as a session equal to the one saved, in
\* every field and in the order of its annotations and file edits.
C2_SaveThenLoad ==
  (rt.kind = "session" /\ rt.stage = "loaded" /\ proc[1].pc = "loaded") =>
    /\ proc[1].found
    /\ proc[1].s = rt.session

\* Process p has been through Load: it has read the file, or found none.
HasLoaded(p) == proc[p].pc \notin {"idle", "load", "read"} /\ proc[p].cmd # "save"

\* Only two commands were ever launched: p and a start.
OnlyStartAnd(p) ==
  /\ launched = 2
  /\ \E q \in Procs \ {p} : proc[q].cmd = "start" /\ proc[q].pc = "done"

\* C3: a start that finds a session record ends with "session already in
\* progress" and has written nothing: it neither replaced nor removed the
\* record and created no temporary file.
C3_StartRefused ==
  \A p \in Procs :
    (proc[p].cmd = "start" /\ HasLoaded(p) /\ proc[p].found) =>
      /\ proc[p].pc \in {"loaded", "done"}
      /\ proc[p].writes = 0
      /\ proc[p].tmp = 0
      /\ proc[p].pc = "done" => proc[p].result = "session already in progress"

\* A start was refused and the record it found is still the stored one.
C3_Witness ==
  \E p \in Procs :
    /\ proc[p].cmd = "start" /\ proc[p].pc = "done" /\ proc[p].found
    /\ proc[p].result = "session already in progress"
    /\ sessionFile # 0
    /\ inode[sessionFile].content = proc[p].got

\* C4: when the only commands run are starts launched against an empty
\* store, at most one of them succeeds.
C4_OneStartSucceeds ==
  (/\ launched = 2
   /\ \A p \in Procs : proc[p].cmd \in {"idle", "start"}
   /\ \A p \in Procs : proc[p].cmd = "start" => ~proc[p].from.present)
  => Cardinality({p \in Procs : proc[p].cmd = "start" /\ proc[p].pc = "done"
                                /\ proc[p].result = "ok"}) <= 1

\* C5: every Load that found a file has read exactly the bytes that the
\* Save which created the file set out to write, and has decoded them to
\* the session given to that Save, whatever Saves ran meanwhile.
C5_LoadReadsWholeSave ==
  \A p \in Procs :
    (HasLoaded(p) /\ proc[p].from.present) =>
      /\ proc[p].got = proc[p].from.whole
      /\ (proc[p].pc = "loaded" /\ proc[p].from.saved # NilPtr) =>
           /\ proc[p].found
           /\ proc[p].s = proc[p].from.saved[1]

\* A Load has returned a session while another command's Save has written
\* part of its temporary file.
C5_Witness ==
  \E p \in Procs, q \in Procs :
    /\ p # q
    /\ proc[p].pc = "loaded" /\ proc[p].found
    /\ proc[q].pc = "write"
    /\ inode[proc[q].tmp].content # <<>>
    /\ inode[proc[q].tmp].content # proc[q].data

\* C6: a Load that finds no file returns the no-active-session error, and
\* a note or a stop that gets it ends with "no active session" having
\* written no record, run no collector and written no output.
C6_NoSession ==
  \A p \in Procs :
    /\ (HasLoaded(p) /\ ~proc[p].from.present) => proc[p].lerr = "no active session"
    /\ (proc[p].cmd \in {"note", "stop"} /\ proc[p].lerr = "no active session") =>
         /\ ~proc[p].from.present
         /\ proc[p].pc \in {"loaded", "done"}
         /\ proc[p].pc = "done" => proc[p].result = "no active session"
         /\ proc[p].writes = 0 /\ proc[p].tmp = 0
         /\ proc[p].ran = <<>>
         /\ ~proc[p].written /\ proc[p].out = <<>>

\* A note and a stop have both ended with "no active session" and there
\* is no record.
C6_Witness ==
  \E p \in Procs, q \in Procs :
    /\ proc[p].cmd = "note" /\ proc[p].pc = "done"
    /\ proc[p].result = "no active session"
    /\ proc[q].cmd = "stop" /\ proc[q].pc = "done"
    /\ proc[q].result = "no active session"
    /\ sessionFile = 0

\* C7: a command that read a record which does not decode gets an error
\* other than the no-active-session error, returns it (the watcher drops
\* its event) and writes nothing: the stored bytes stay as they were read.
C7_CorruptKept ==
  \A p \in Procs :
    (HasLoaded(p) /\ proc[p].from.present /\ ~proc[p].found
       /\ Unmarshal("Session", proc[p].got).err) =>
      /\ proc[p].lerr = "failed to parse session state"
      /\ proc[p].lerr # "no active session"
      /\ proc[p].pc \in {"loaded", "done"}
      /\ proc[p].pc = "done" =>
           proc[p].result = IF proc[p].cmd = "watch" THEN "ok" ELSE proc[p].lerr
      /\ proc[p].writes = 0 /\ proc[p].tmp = 0
      /\ ~proc[p].written
      /\ sessionFile # 0
      /\ inode[sessionFile].content = proc[p].got

\* A start has returned the parse error and a watcher has dropped its
\* event, and the bytes they read are still stored.
C7_Witness ==
  \E p \in Procs, q \in Procs :
    /\ proc[p].cmd = "start" /\ proc[p].pc = "done"
    /\ proc[p].result = "failed to parse session state"
    /\ proc[q].cmd = "watch" /\ proc[q].pc = "done"
    /\ proc[q].lerr = "failed to parse session state"
    /\ sessionFile # 0
    /\ inode[sessionFile].content = proc[q].got
    /\ inode[sessionFile].content \in CorruptRecords

\* C8: a stop removes the record only once it has written the output file;
\* a stop that ends with a render or a write error has not removed it, and
\* when no other command but the start ran, the record is still stored.
C8_DeleteAfterWrite ==
  \A p \in Procs :
    proc[p].cmd = "stop" =>
      /\ proc[p].writes > 0 => (proc[p].written /\ proc[p].out # <<>>)
      /\ proc[p].result \in {"render bundle", "write output file"} =>
           /\ proc[p].pc = "done"
           /\ proc[p].writes = 0
           /\ ~proc[p].written
           /\ OnlyStartAnd(p) =>
                (sessionFile # 0 /\ inode[sessionFile].content = proc[p].got)

\* A stop has failed to write its output file and the record is still
\* stored as the stop read it.
C8_Witness ==
  \E p \in Procs :
    /\ proc[p].cmd = "stop" /\ proc[p].pc = "done"
    /\ proc[p].result = "write output file"
    /\ sessionFile # 0
    /\ inode[sessionFile].content = proc[p].got

\* C9: a stop one of whose collectors returns an error ends with that
\* error before rendering: it ran no collector after the failing one, built
\* no bundle, wrote no output file and did not touch the record, which, when
\* no other command but the start ran, is stored byte for byte as before.
C9_FatalAborts ==
  \A p \in Procs :
    proc[p].cmd = "stop" =>
      /\ proc[p].result = "collector error" =>
           /\ proc[p].pc = "done"
           /\ Len(proc[p].ran) < Len(Collectors)
           /\ proc[p].ran = SubSeq(Collectors, 1, Len(proc[p].ran))
           /\ proc[p].bundle = Zero("ContextBundle")
           /\ ~proc[p].written /\ proc[p].out = <<>>
           /\ proc[p].writes = 0 /\ proc[p].tmp = 0
           /\ OnlyStartAnd(p) =>
                (sessionFile # 0 /\ inode[sessionFile].content = proc[p].got)
      /\ (proc[p].ran # <<>> /\ GitCollect(Machine(proc[p].machine).git).err) =>
           /\ proc[p].result = "collector error"
           /\ proc[p].ran = << "File", "Shell", "Git" >>

\* A stop with a summary message has ended on the git collector's error
\* and the record is stored as the stop read it.
C9_Witness ==
  \E p \in Procs :
    /\ proc[p].cmd = "stop" /\ proc[p].pc = "done"
    /\ proc[p].result = "collector error"
    /\ proc[p].arg # <<>>
    /\ proc[p].ran = << "File", "Shell", "Git" >>
    /\ sessionFile # 0
    /\ inode[sessionFile].content = proc[p].got

\* Stop p found a session and none of its collectors returns an error.
NoFatal(p) ==
  /\ proc[p].cmd = "stop" /\ proc[p].pc = "done"
  /\ proc[p].found
  /\ ~GitCollect(Machine(proc[p].machine).git).err

Call(kind, in) ==
  [kind |-> kind, stage |-> "running", cancelled |-> FALSE, in |-> in, out |-> <<>>]

Returned(out) == [rt EXCEPT !.stage = "returned", !.out = out]

\* What git prints for a query: nothing, a line, lines with an empty one
\* between, a line with blanks around it.
GitOutputs ==
  {<<>>, << "a", "\n" >>, << "a", "\n", "\n", "b", "\n" >>, << " ", "a", " ", "\n" >>}

\* The exit statuses of a git query: success, failure, "not a repository".
GitCodes == {0, 1, 128}

\* The answers of the runner to the five queries: every combination of
\* exit statuses, and the same output for each query.
GitAnswers ==
  {[i \in 1..5 |-> [code |-> c[i], out |-> o]] :
     c \in [1..5 -> GitCodes], o \in GitOutputs}

\* rt is a call of GitCollector.Collect.
GitCall == \E a \in GitAnswers : rt = Call("git", [answers |-> a])

\* GitCollector.Collect returns.
RunGitCollect ==
  /\ rt.kind = "git" /\ rt.stage = "running"
  /\ rt' = Returned(GitCollect(rt.in.answers))
  /\ UNCHANGED << inode, sessionFile, proc, clock, launched, cmdLog >>

\* The caller cancels the context while Collect runs.  No collector reads
\* its context, so nothing but the context changes.
CancelContext ==
  /\ rt.stage = "running" /\ ~rt.cancelled
  /\ rt.kind \in {"git", "shell", "files", "editor"}
  /\ rt' = [rt EXCEPT !.cancelled = TRUE]
  /\ UNCHANGED << inode, sessionFile, proc, clock, launched, cmdLog >>

\* The commands given to filterCommands: a plain command at every
\* instant and without timestamp, the tool's own start and stop, by name
\* and by path, and another of its subcommands.
FilterCommandSet ==
  {[raw |-> << "a" >>, timestamp |-> t] : t \in 0..3}
  \cup {[raw |-> << "handoff", " ", "start" >>, timestamp |-> t] : t \in {0, 2}}
  \cup {[raw |-> << "/w", "/", "handoff", " ", "stop" >>, timestamp |-> 2],
        [raw |-> << "handoff", " ", "x" >>, timestamp |-> 0]}

\* A history of n commands without timestamps, the i-th being "i".
LongHistory(n) == [i \in 1..n |-> [raw |-> IntText(i), timestamp |-> 0]]

\* The session windows: StartTime, and StopTime or nil.
Windows == {[start |-> t, stop |-> u] : t \in {1, 2}, u \in {NilPtr, PtrTo(2), PtrTo(3)}}

\* The lists of at most n commands.
CommandLists(n) == UNION {[1..k -> FilterCommandSet] : k \in 0..n}

\* rt is a call of filterCommands: on a short list of commands under a
\* window and a baseline, or on a history longer than
\* maxNoTimestampCommands, alone or after the tool's own start and a
\* command with a timestamp.
FilterCall ==
  \/ \E c \in CommandLists(MaxCmds), w \in Windows, b \in 0..MaxCmds :
       rt = Call("filter", [commands |-> c, start |-> w.start, stop |-> w.stop,
                            baselineCount |-> b])
  \/ \E pre \in {<<>>, << [raw |-> << "handoff", " ", "start" >>, timestamp |-> 0],
                          [raw |-> << "a" >>, timestamp |-> 2] >>},
        k \in 0..MaxExtra,
        b \in {0, 1, MaxExtra, maxNoTimestampCommands + MaxExtra} :
       rt = Call("filter", [commands |-> pre \o LongHistory(maxNoTimestampCommands + k),
                            start |-> 1, stop |-> PtrTo(3), baselineCount |-> b])

\* filterCommands returns.
RunFilterCommands ==
  /\ rt.kind = "filter" /\ rt.stage = "running"
  /\ rt' = Returned(filterCommands(rt.in.commands, rt.in.start, rt.in.stop,
                                   rt.in.baselineCount))
  /\ UNCHANGED << inode, sessionFile, proc, clock, launched, cmdLog >>

\* The history files the shell collector finds: missing, unreadable by the
\* scanner, or parsed to a short list of commands.
Histories ==
  {[state |-> st, commands |-> <<>>] : st \in {"unavailable", "unparsable"}}
  \cup {[state |-> "ok", commands |-> c] :
          c \in CommandLists(2)}

\* The command logs the shell plugin leaves: none, or one command in the window.
CommandLogs == {<<>>, << [raw |-> << "a" >>, timestamp |-> 2] >>}

\* The fields of the session that the shell collector reads.
ShellSessions ==
  {[start_time |-> 2, stop_time |-> PtrTo(3), history_baseline_count |-> b] : b \in 0..2}

\* rt is a call of ShellCollector.Collect.
ShellCall ==
  \E u \in BOOLEAN, s \in ShellSessions, l \in CommandLogs, h \in Histories :
    rt = Call("shell", [sc |-> [UsePluginLog |-> u], sess |-> s, log |-> l, history |-> h])

\* ShellCollector.Collect returns.
RunShellCollect ==
  /\ rt.kind = "shell" /\ rt.stage = "running"
  /\ rt' = Returned(ShellCollect(rt.in.sc, rt.in.sess, rt.in.log, rt.in.history))
  /\ UNCHANGED << inode, sessionFile, proc, clock, launched, cmdLog >>

\* bufio.Scanner with ScanLines: the text cut at every "\n", a last line
\* without "\n" included, an empty last line not, each without its final "\r".
ScanLines(text) ==
  LET parts == Split(text, "\n")
      whole == IF Len(parts[Len(parts)]) = 0
               THEN SubSeq(parts, 1, Len(parts) - 1) ELSE parts
  IN [i \in 1..Len(whole) |->
        IF Len(whole[i]) > 0 /\ whole[i][Len(whole[i])] = "\r"
        THEN SubSeq(whole[i], 1, Len(whole[i]) - 1) ELSE whole[i]]

RECURSIVE DigitsValue(_)
DigitsValue(str) ==
  IF Len(str) = 0 THEN 0
  ELSE 10 * DigitsValue(SubSeq(str, 1, Len(str) - 1)) + DigitVal(str[Len(str)])

\* strconv.ParseInt(str, 10, 64): [err, n]; a sign, then digits only.
ParseInt(str) ==
  LET signed == Len(str) > 0 /\ Head(str) \in {"+", "-"}
      digits == IF signed THEN Tail(str) ELSE str
  IN IF Len(digits) = 0 \/ \E i \in 1..Len(digits) : ~IsDigit(digits[i])
     THEN [err |-> TRUE, n |-> 0]
     ELSE [err |-> FALSE,
           n |-> IF signed /\ Head(str) = "-" THEN 0 - DigitsValue(digits)
                 ELSE DigitsValue(digits)]

\* The loop of parseBashHistory over the lines left, pendingTime being
\* the time of a "#<epoch>" line just read, or 0.
RECURSIVE BashLines(_, _)
BashLines(lines, pendingTime) ==
  IF Len(lines) = 0 THEN <<>>
  ELSE LET line == Head(lines)
       IN IF HasPrefix(line, << "#" >>)
          THEN IF ~ParseInt(Tail(line)).err
               THEN BashLines(Tail(lines), ParseInt(Tail(line)).n)
               ELSE BashLines(Tail(lines), 0)
          ELSE IF Len(line) = 0 THEN BashLines(Tail(lines), 0)
          ELSE << [raw |-> line, timestamp |-> pendingTime] >>
               \o BashLines(Tail(lines), 0)

\* parseBashHistory: the commands of the text of a bash history file.
parseBashHistory(text) == BashLines(ScanLines(text), 0)

\* strings.Index for a one-unit separator, -1 when it is absent.
Index(str, u) == IndexOf(str, u) - 1

\* parseZshHistory's reading of one line that is not empty.
ZshLine(line) ==
  LET rest == SubSeq(line, 3, Len(line))
      semiIdx == Index(rest, ";")
      timePart == SubSeq(rest, 1, semiIdx)
      colonIdx == Index(timePart, ":")
      epoch == ParseInt(SubSeq(timePart, 1, colonIdx))
  IN IF /\ HasPrefix(line, << ":", " " >>)
        /\ semiIdx > 0
        /\ colonIdx > 0
        /\ ~epoch.err
     THEN [raw |-> SubSeq(rest, semiIdx + 2, Len(rest)), timestamp |-> epoch.n]
     ELSE [raw |-> line, timestamp |-> 0]

\* parseZshHistory
parseZshHistory(text) ==
  LET lines == SelectSeq(ScanLines(text), LAMBDA l : Len(l) > 0)
  IN [i \in 1..Len(lines) |-> ZshLine(lines[i])]

FishCmd == << "-", " ", "c", "m", "d", ":", " " >>

FishWhen == << " ", " ", "w", "h", "e", "n", ":", " " >>

\* The entry parseFishHistory holds, appended if it has a command.
FishSaved(inEntry, currentCmd, currentTime) ==
  IF inEntry /\ Len(currentCmd) # 0
  THEN << [raw |-> currentCmd, timestamp |-> currentTime] >> ELSE <<>>

\* The loop of parseFishHistory over the lines left, and its last flush.
RECURSIVE FishLines(_, _, _, _)
FishLines(lines, inEntry, currentCmd, currentTime) ==
  IF Len(lines) = 0 THEN FishSaved(inEntry, currentCmd, currentTime)
  ELSE LET line == Head(lines)
       IN IF HasPrefix(line, FishCmd)
          THEN FishSaved(inEntry, currentCmd, currentTime)
               \o FishLines(Tail(lines), TRUE,
                            SubSeq(line, Len(FishCmd) + 1, Len(line)), 0)
          ELSE IF inEntry /\ HasPrefix(line, FishWhen)
          THEN LET epoch == ParseInt(TrimSpace(SubSeq(line, Len(FishWhen) + 1, Len(line))))
               IN FishLines(Tail(lines), inEntry, currentCmd,
                            IF epoch.err THEN currentTime ELSE epoch.n)
          ELSE FishLines(Tail(lines), inEntry, currentCmd, currentTime)

\* parseFishHistory
parseFishHistory(text) == FishLines(ScanLines(text), FALSE, <<>>, 0)

\* The history file a shell writes for a list of [cmd, epoch] entries.
EncodeHistory(shell, entries) ==
  Flatten([i \in 1..Len(entries) |->
    LET e == entries[i]
    IN CASE shell = "bash" ->
              << "#" >> \o IntText(e.epoch) \o << "\n" >> \o e.cmd \o << "\n" >>
         [] shell = "zsh" ->
              << ":", " " >> \o IntText(e.epoch) \o << ":", "0", ";" >> \o e.cmd \o << "\n" >>
         [] shell = "fish" ->
              FishCmd \o e.cmd \o << "\n" >> \o FishWhen \o IntText(e.epoch) \o << "\n" >>])

\* The parser collectFromHistory chooses for a shell.
ParseHistory(shell, text) ==
  CASE shell = "zsh" -> parseZshHistory(text)
    [] shell = "fish" -> parseFishHistory(text)
    [] OTHER -> parseBashHistory(text)

\* The units of a command line: it has no line break.
CommandUnits == {"a", "1", " ", "#", ";"}

\* The commands typed: one or two units.
TypedCommands ==
  {<< u >> : u \in CommandUnits} \cup {<< u, v >> : u \in CommandUnits, v \in CommandUnits}

HistoryEntries == {[cmd |-> c, epoch |-> t] : c \in TypedCommands, t \in 1..2}

\* rt is a call of the history parser of a shell on the history file of
\* at most two entries.
ParseCall ==
  \E sh \in {"bash", "zsh", "fish"}, n \in 0..2 :
    \E es \in [1..n -> HistoryEntries] :
      rt = Call("parse", [shell |-> sh, entries |-> es])

\* The parser of the shell returns for the history file of the entries.
RunParseHistory ==
  /\ rt.kind = "parse" /\ rt.stage = "running"
  /\ rt' = Returned(ParseHistory(rt.in.shell, EncodeHistory(rt.in.shell, rt.in.entries)))
  /\ UNCHANGED << inode, sessionFile, proc, clock, launched, cmdLog >>

\* The files of the work dir /w that the file collector meets: two at its
\* top, one of them with the base name of the third, in the directory d.
FilePaths ==
  << << "/w", "/", "a" >>, << "/w", "/", "b" >>, << "/w", "/", "d", "/", "a" >> >>

\* .gitignore and .handoffignore as found in the work dir: .gitignore
\* absent, unreadable, or holding a comment, a blank line and a padded
\* pattern that matches by base name; .handoffignore absent or holding a
\* pattern that matches by relative path.
IgnoreFiles ==
  {<< g, h >> :
     g \in {[state |-> "absent", lines |-> <<>>],
            [state |-> "unreadable", lines |-> <<>>],
            [state |-> "ok", lines |-> << << "#", "b" >>, <<>>, << " ", "a", " " >> >>]},
     h \in {[state |-> "absent", lines |-> <<>>],
            [state |-> "ok", lines |-> << << "d", "/", "*" >> >>]}}

\* The edits the watcher recorded in the session, during it.
RecordedEdits ==
  {[path |-> FilePaths[1], timestamp |-> 2, diff |-> <<>>],
   [path |-> FilePaths[1], timestamp |-> 3, diff |-> <<>>],
   [path |-> FilePaths[2], timestamp |-> 2, diff |-> <<>>],
   [path |-> FilePaths[3], timestamp |-> 3, diff |-> <<>>]}

\* The fields of the session that the file collector reads: a session
\* started at 2 and stopped at 3, with at most two recorded edits.
FileSessions ==
  {[start_time |-> 2, stop_time |-> PtrTo(3), file_edits |-> Slice(es)] :
     es \in UNION {[1..n -> RecordedEdits] : n \in 0..2}}

\* The work trees: the first file absent or last modified before, at the
\* start of, at the end of or after the session; the second absent or
\* modified during it.
WorkTrees ==
  {{[path |-> FilePaths[1], mtime |-> t, diff |-> << "a" >>] : t \in m1}
   \cup {[path |-> FilePaths[2], mtime |-> t, diff |-> <<>>] : t \in m2}
     : m1 \in {{}, {1}, {2}, {3}, {4}}, m2 \in {{}, {3}}}

\* The collector of the work dir /w, with no configured pattern or with one
\* that matches by full path.
FileCollectors ==
  {[WorkDir |-> << "/w" >>, IgnorePatterns |-> ps] :
     ps \in {<<>>, << << "/w", "/", "b" >> >>}}

\* rt is a call of FileCollector.Collect, with an order in which its map
\* can be ranged over.
FileCall ==
  \E fc \in FileCollectors, s \in FileSessions, fs \in IgnoreFiles, tr \in WorkTrees :
    \E o \in MapOrders(LatestPaths(fc, s, 3, fs, tr)) :
      rt = Call("files", [fc |-> fc, sess |-> s, files |-> fs, tree |-> tr, order |-> o])

\* FileCollector.Collect returns, having ranged over its map in the order
\* drawn.
RunFileCollect ==
  /\ rt.kind = "files" /\ rt.stage = "running"
  /\ rt' = Returned(FileCollect(rt.in.fc, rt.in.sess, 3, rt.in.files, rt.in.tree,
                                rt.in.order))
  /\ UNCHANGED << inode, sessionFile, proc, clock, launched, cmdLog >>

\* The tabs the editors have open: a file of the work dir /w, the work dir
\* itself, and a file of the sibling directory /wx.
OpenTabs == {<< "/w", "/", "a" >>, << "/w" >>, << "/w", "x", "/", "a" >>}

\* What one editor reader returns: at most two tabs, with or without a warning.
Readings ==
  {[tabs |-> t, warnings |-> w] :
     t \in UNION {[1..n -> OpenTabs] : n \in 0..2}, w \in {<<>>, << "vim" >>}}

\* What collectVSCodeFamily returns: a warning and no tab, or the tabs it
\* found, each once.
StoredReadings ==
  {[tabs |-> <<>>, warnings |-> << "VS Code workspace storage unavailable" >>]}
  \cup {r \in Readings : /\ r.warnings = <<>>
                         /\ \A i, j \in 1..Len(r.tabs) : r.tabs[i] = r.tabs[j] => i = j}

\* rt is a call of the editor collector on a session of the work dir /w:
\* with StateDir set, without a home directory, and with the four readers,
\* the last two with nothing or with one tab the others may have too.
EditorCall ==
  \/ \E st \in StoredReadings :
       rt = Call("editor", [e |-> [StateDir |-> << "s" >>],
                            sess |-> [work_dir |-> << "/w" >>],
                            stored |-> st, homeErr |-> FALSE,
                            readings |-> << NoReading, NoReading, NoReading, NoReading >>])
  \/ \E h \in BOOLEAN, r1 \in Readings, r2 \in Readings,
        r4 \in {NoReading, [tabs |-> << << "/w", "/", "a" >> >>, warnings |-> <<>>]} :
       rt = Call("editor", [e |-> [StateDir |-> <<>>],
                            sess |-> [work_dir |-> << "/w" >>],
                            stored |-> NoReading, homeErr |-> h,
                            readings |-> << r1, r2, NoReading, r4 >>])

\* EditorCollector.Collect returns.
RunEditorCollect ==
  /\ rt.kind = "editor" /\ rt.stage = "running"
  /\ rt' = Returned(EditorCollect(rt.in.e, rt.in.sess, rt.in.stored, rt.in.homeErr,
                                  rt.in.readings))
  /\ UNCHANGED << inode, sessionFile, proc, clock, launched, cmdLog >>

\* The payloads a document carries: the base64 of the JSON of a bundle, of
\* the JSON null, of text that is no JSON and of nothing, and text that is
\* no base64.
Payloads ==
  {B64Encode(Marshal("ContextBundle", NilBundle(<< "a" >>)).data),
   B64Encode(Marshal("ContextBundle", EmptyBundle(<< "b" >>)).data),
   B64Encode(<< "null" >>),
   B64Encode(<< "a", "{" >>),
   <<>>,
   << "!", "!", "!", "!" >>}

\* What the human-readable sections hold: text, a header, and text that
\* looks like the version marker, the start of a data comment or its end.
SectionUnits ==
  {"a", "## Summary\n\n", VersionSentinel, DataPrefix, DataSuffix}

Sections == UNION {[1..n -> SectionUnits] : n \in 0..2}

\* The document: a first line or none, the version marker or not, the data
\* comment with or without its start and its end, and the sections.
Document(d) ==
  d.head
  \o (IF d.marker THEN << VersionSentinel, "\n" >> ELSE <<>>)
  \o (IF d.prefix THEN << DataPrefix >> ELSE <<>>)
  \o d.payload
  \o (IF d.suffix THEN << DataSuffix >> ELSE <<>>)
  \o << "\n", "\n" >> \o d.sections

\* rt is a call of MarkdownParser.Parse on a document.
MarkdownCall ==
  \E head \in {<<>>, << "a", "\n" >>}, marker \in BOOLEAN, prefix \in BOOLEAN,
     payload \in Payloads, suffix \in BOOLEAN, sections \in Sections :
    rt = Call("mdparse", [head |-> head, marker |-> marker, prefix |-> prefix,
                          payload |-> payload, suffix |-> suffix,
                          sections |-> sections])

\* MarkdownParser.Parse returns for the document.
RunMarkdownParse ==
  /\ rt.kind = "mdparse" /\ rt.stage = "running"
  /\ rt' = Returned(MarkdownParse(Document(rt.in)))
  /\ UNCHANGED << inode, sessionFile, proc, clock, launched, cmdLog >>

\* SnapshotHistoryBaseline: the number of commands the parser finds in the
\* history file, 0 for a file that cannot be opened or parsed.
SnapshotHistoryBaseline(history) ==
  IF history.state = "ok" THEN Len(history.commands) ELSE 0

\* What a shell that keeps no timestamps appends to its history file: plain
\* commands and the tool's own start and stop.
AppendedCommands ==
  {[raw |-> r, timestamp |-> 0] :
     r \in {<< "a" >>, << "b" >>, << "handoff", " ", "start" >>,
            << "handoff", " ", "stop" >>}}

\* rt is a session over a history file without timestamps that only grows:
\* what the file holds when start snapshots the baseline, and what is
\* appended to it until stop; both short, or the second longer than
\* maxNoTimestampCommands.
SessionCall ==
  \/ \E n \in 0..2, m \in 0..2 :
       \E before \in [1..n -> AppendedCommands], typed \in [1..m -> AppendedCommands] :
         rt = Call("session", [before |-> before, typed |-> typed])
  \/ \E before \in {<<>>, << [raw |-> << "a" >>, timestamp |-> 0] >>}, k \in 0..MaxExtra :
       rt = Call("session", [before |-> before,
                             typed |-> LongHistory(maxNoTimestampCommands + k)])

\* startCmd taking the baseline of the history file as it is.
StartSnapshot ==
  /\ rt.kind = "session" /\ rt.stage = "running"
  /\ rt' = [rt EXCEPT !.stage = "started",
                      !.out = [baseline |-> SnapshotHistoryBaseline(
                                 [state |-> "ok", commands |-> rt.in.before])]]
  /\ UNCHANGED << inode, sessionFile, proc, clock, launched, cmdLog >>

\* ShellCollector.Collect at stop, in history-file mode, on the file as it
\* has grown, for the session that holds the baseline.
StopCollectsHistory ==
  /\ rt.kind = "session" /\ rt.stage = "started"
  /\ rt' = Returned(ShellCollect(
              [UsePluginLog |-> FALSE],
              [start_time |-> 1, stop_time |-> PtrTo(2),
               history_baseline_count |-> rt.out.baseline],
              <<>>, [state |-> "ok", commands |-> rt.in.before \o rt.in.typed]))
  /\ UNCHANGED << inode, sessionFile, proc, clock, launched, cmdLog >>

\* rt is a call of one of the operations.
IsCall ==
  \/ GitCall
  \/ FilterCall
  \/ ShellCall
  \/ ParseCall
  \/ FileCall
  \/ EditorCall
  \/ MarkdownCall
  \/ SessionCall

InitCollect ==
  /\ sessionFile = 0
  /\ inode = << >>
  /\ proc = [p \in Procs |-> IdleProc]
  /\ clock = 1
  /\ launched = 0
  /\ cmdLog = <<>>
  /\ IsCall

NextCollect ==
  \/ CancelContext
  \/ RunGitCollect
  \/ RunFilterCommands
  \/ RunShellCollect
  \/ RunParseHistory
  \/ RunFileCollect
  \/ RunEditorCollect
  \/ RunMarkdownParse
  \/ StartSnapshot
  \/ StopCollectsHistory

SpecCollect == InitCollect /\ [][NextCollect]_vars

\* Git has returned for these answers.
GitReturned == rt.kind = "git" /\ rt.stage = "returned"

\* The lines of a text: its units without the line ends.
Unlined(text) == SelectSeq(text, LAMBDA u : u # "\n")

\* t is s without the blanks and line ends at its two ends.
IsTrimOf(t, s) ==
  /\ Len(t) > 0 => (t[1] \notin {" ", "\n"} /\ t[Len(t)] \notin {" ", "\n"})
  /\ \E i \in 0..Len(s) :
       /\ i + Len(t) <= Len(s)
       /\ SubSeq(s, i + 1, i + Len(t)) = t
       /\ \A j \in (1..i) \cup ((i + Len(t) + 1)..Len(s)) : s[j] \in {" ", "\n"}

\* C11: GitCollector.Collect returns the "not a git repository" warning,
\* no GitInfo and no error when the branch query exits with 128; an error
\* and no GitInfo when the branch query exits with another status or a later
\* query fails; and, when the five queries succeed, no warning and a GitInfo
\* with the branch and the head without blanks around them, both diffs as
\* printed, and the non-empty lines of the log in the order printed.
C11_GitOutcomes ==
  GitReturned =>
    LET a == rt.in.answers
        o == rt.out
    IN /\ a[1].code = 128 =>
            /\ ~o.err
            /\ o.r.GitInfo = NilPtr
            /\ o.r.Warnings = << "not a git repository" >>
       /\ (a[1].code # 128 /\ \E i \in 1..5 : a[i].code # 0) =>
            /\ o.err
            /\ o.r.GitInfo = NilPtr
       /\ (\A i \in 1..5 : a[i].code = 0) =>
            /\ ~o.err
            /\ o.r.Warnings = <<>>
            /\ o.r.GitInfo # NilPtr
            /\ LET info == o.r.GitInfo[1]
               IN /\ IsTrimOf(info.branch, a[1].out)
                  /\ IsTrimOf(info.head_commit, a[2].out)
                  /\ info.diff = a[3].out
                  /\ info.staged_diff = a[4].out
                  /\ ~info.recent_log.isnil
                  /\ \A i \in 1..Len(info.recent_log.items) :
                       /\ Len(info.recent_log.items[i]) > 0
                       /\ "\n" \notin {info.recent_log.items[i][j] :
                                         j \in 1..Len(info.recent_log.items[i])}
                  /\ Flatten(info.recent_log.items) = Unlined(a[5].out)
                  /\ Len(info.recent_log.items) =
                       Cardinality({i \in 1..Len(a[5].out) :
                                      /\ a[5].out[i] # "\n"
                                      /\ (i = 1 \/ a[5].out[i - 1] = "\n")})

\* The five queries have succeeded and the log they printed had an empty
\* line between two commits.
C11_Witness ==
  /\ GitReturned
  /\ \A i \in 1..5 : rt.in.answers[i].code = 0
  /\ rt.in.answers[5].out = << "a", "\n", "\n", "b", "\n" >>
  /\ rt.out.r.GitInfo # NilPtr
  /\ rt.out.r.GitInfo[1].recent_log.items = << << "a" >>, << "b" >> >>

\* C12: a Collect whose context was cancelled while it ran returns an
\* error.
C12_CancelAborts ==
  (rt.kind \in {"git", "files", "shell", "editor"}
     /\ rt.stage = "returned" /\ rt.cancelled) => rt.out.err

\* filterCommands has returned.
FilterReturned == rt.kind = "filter" /\ rt.stage = "returned"

\* The commands that invoke the tool's own start or stop.
NoiseRaws ==
  {<< "handoff", " ", "start" >>, << "/w", "/", "handoff", " ", "stop" >>}

\* C13: the commands with a timestamp that filterCommands returns are, in
\* order, the commands given that are not the tool's own start or stop and
\* whose timestamp t has start <= t <= stop (no upper bound when the session
\* has no stop time); and no command returned, with or without timestamp, is
\* the tool's own start or stop.
C13_WindowFilter ==
  FilterReturned =>
    /\ SelectSeq(rt.out.commands.items, LAMBDA c : c.timestamp # 0)
         = SelectSeq(rt.in.commands,
             LAMBDA c : /\ c.timestamp # 0
                        /\ c.raw \notin NoiseRaws
                        /\ rt.in.start <= c.timestamp
                        /\ (rt.in.stop = NilPtr \/ c.timestamp <= rt.in.stop[1]))
    /\ \A i \in 1..Len(rt.out.commands.items) :
         rt.out.commands.items[i].raw \notin NoiseRaws

\* A command stamped at the start of the window and one stamped at its
\* end were kept, one stamped before it was dropped, and so was the tool's
\* own stop, invoked by path inside the window.
C13_Witness ==
  /\ FilterReturned
  /\ rt.in.start = 2 /\ rt.in.stop = PtrTo(3)
  /\ rt.in.commands = << [raw |-> << "a" >>, timestamp |-> 1],
                         [raw |-> << "/w", "/", "handoff", " ", "stop" >>, timestamp |-> 2],
                         [raw |-> << "a" >>, timestamp |-> 3] >>
  /\ rt.out.commands.items = << [raw |-> << "a" >>, timestamp |-> 3] >>

\* The commands without a timestamp, the tool's own start and stop left out.
Untimestamped(commands) ==
  SelectSeq(commands, LAMBDA c : c.timestamp = 0 /\ c.raw \notin NoiseRaws)

\* C14: the commands without a timestamp that filterCommands returns are
\* none when the baseline B is at least their number N, and otherwise the
\* last min(50, N - B) of them, in the order given and after every command
\* with a timestamp.
C14_BaselineThenTail ==
  FilterReturned =>
    LET given == Untimestamped(rt.in.commands)
        N == Len(given)
        B == rt.in.baselineCount
        K == IF N - B > maxNoTimestampCommands THEN maxNoTimestampCommands ELSE N - B
        res == rt.out.commands.items
    IN /\ B >= N => SelectSeq(res, LAMBDA c : c.timestamp = 0) = <<>>
       /\ B < N =>
            /\ SelectSeq(res, LAMBDA c : c.timestamp = 0)
                 = [i \in 1..K |-> given[N - K + i]]
            /\ SubSeq(res, Len(res) - K + 1, Len(res))
                 = [i \in 1..K |-> given[N - K + i]]

\* A history of 52 commands without timestamps after a baseline of 1: the
\* 50 returned are the third to the last.
C14_Witness ==
  /\ FilterReturned
  /\ Len(Untimestamped(rt.in.commands)) = maxNoTimestampCommands + 2
  /\ rt.in.baselineCount = 1
  /\ Len(rt.out.commands.items) = maxNoTimestampCommands
  /\ rt.out.commands.items[1].raw = << "3" >>
  /\ rt.out.commands.items[maxNoTimestampCommands].raw = << "5", "2" >>

\* ShellCollector.Collect has returned.
ShellReturned == rt.kind = "shell" /\ rt.stage = "returned"

\* The collector read the history file, not the plugin's command log.
HistoryMode == ~(rt.in.sc.UsePluginLog /\ Len(rt.in.log) > 0)

\* C15: in history-file mode, whenever the history read at stop holds no
\* more entries than the session's baseline count, the shell collector's
\* result carries the warning that the history was not flushed.
C15_UnflushedWarned ==
  (/\ ShellReturned /\ HistoryMode
   /\ rt.in.history.state = "ok"
   /\ Len(rt.in.history.commands) <= rt.in.sess.history_baseline_count)
  => \E i \in 1..Len(rt.out.r.Warnings) :
       rt.out.r.Warnings[i] = "shell history was not flushed during session"

\* A history parser has returned.
ParseReturned == rt.kind = "parse" /\ rt.stage = "returned"

\* The commands a faithful parse of the entries gives.
Encoded(entries) ==
  [i \in 1..Len(entries) |-> [raw |-> entries[i].cmd, timestamp |-> entries[i].epoch]]

\* C16: in each of the three grammars, parsing the history file written for
\* a list of (command, epoch) entries returns as many commands as entries,
\* each with the text and the timestamp of its own entry, in the order given.
C16_ParseRecoversEntries ==
  ParseReturned => rt.out = Encoded(rt.in.entries)

\* FileCollector.Collect has returned.
FilesReturned == rt.kind = "files" /\ rt.stage = "returned"

\* The ignore patterns in force: those configured, and the lines of the
\* ignore files that can be read, comments and blanks skipped.
PatternsInForce ==
  rt.in.fc.IgnorePatterns
  \o Flatten([i \in 1..2 |->
       IF rt.in.files[i].state = "ok"
       THEN SelectSeq([k \in 1..Len(rt.in.files[i].lines) |->
                         TrimSpace(rt.in.files[i].lines[k])],
                      LAMBDA l : l # <<>> /\ Head(l) # "#")
       ELSE <<>>])

\* The path matches a pattern in force by base name, by path relative to
\* the work dir or by full path.
Ignored(path) ==
  \E i \in 1..Len(PatternsInForce) :
    \/ GlobMatch(PatternsInForce[i], Base(path))
    \/ GlobMatch(PatternsInForce[i], Rel(rt.in.fc.WorkDir, path))
    \/ GlobMatch(PatternsInForce[i], path)

\* The paths of the file edits returned, and those the session recorded.
ResultPaths ==
  {rt.out.r.FileEdits.items[i].path : i \in 1..Len(rt.out.r.FileEdits.items)}

RecordedPaths ==
  {rt.in.sess.file_edits.items[i].path : i \in 1..Len(rt.in.sess.file_edits.items)}

\* C17: no path in the result of FileCollector.Collect matches an ignore
\* pattern by base name, relative path or full path, and every path the
\* session recorded that matches no pattern is in the result.
C17_IgnoredExcluded ==
  FilesReturned =>
    /\ \A p \in ResultPaths : ~Ignored(p)
    /\ \A p \in RecordedPaths : ~Ignored(p) => p \in ResultPaths

\* The files the scan finds with a modification time in the window.
ScannedInWindow ==
  {f \in rt.in.tree : /\ rt.in.sess.start_time <= f.mtime
                      /\ f.mtime <= rt.in.sess.stop_time[1]}

\* The times a path was edited at: those recorded and its time in the window.
EditTimes(p) ==
  {rt.in.sess.file_edits.items[i].timestamp :
     i \in {k \in 1..Len(rt.in.sess.file_edits.items) :
              rt.in.sess.file_edits.items[k].path = p}}
  \cup {f.mtime : f \in {g \in ScannedInWindow : g.path = p}}

\* C18: the paths of the result of FileCollector.Collect are exactly the
\* paths not ignored that the session recorded or that the scan found
\* modified within [start, stop]; each appears once, with the latest of
\* its recorded times and its modification time in the window.
C18_WindowMerge ==
  FilesReturned =>
    LET res == rt.out.r.FileEdits.items
    IN /\ ResultPaths = {p \in RecordedPaths \cup {f.path : f \in ScannedInWindow} :
                           ~Ignored(p)}
       /\ \A i, j \in 1..Len(res) : res[i].path = res[j].path => i = j
       /\ \A i \in 1..Len(res) : res[i].timestamp = Max(EditTimes(res[i].path))

\* EditorCollector.Collect has returned.
EditorReturned == rt.kind = "editor" /\ rt.stage = "returned"

\* The tabs the backends consulted reported.
TabsFound ==
  IF Len(rt.in.e.StateDir) # 0 THEN {rt.in.stored.tabs[i] : i \in 1..Len(rt.in.stored.tabs)}
  ELSE IF rt.in.homeErr THEN {}
  ELSE UNION {{rt.in.readings[k].tabs[i] : i \in 1..Len(rt.in.readings[k].tabs)} :
                k \in 1..Len(rt.in.readings)}

\* The path is the work dir or lies under it.
UnderWorkDir(path) ==
  \/ path = rt.in.sess.work_dir
  \/ /\ Len(path) > Len(rt.in.sess.work_dir)
     /\ SubSeq(path, 1, Len(rt.in.sess.work_dir)) = rt.in.sess.work_dir
     /\ path[Len(rt.in.sess.work_dir) + 1] = "/"

\* C19: every path EditorCollector.Collect returns is the session's work
\* dir or lies under it, work dir then separator; the paths returned are
\* the paths found that do, each once; and when no tab is found the result
\* is empty with at least one warning.  It never returns an error.
C19_TabsUnderWorkDir ==
  EditorReturned =>
    LET tabs == rt.out.r.EditorTabs.items
    IN /\ ~rt.out.err
       /\ \A i \in 1..Len(tabs) : UnderWorkDir(tabs[i])
       /\ \A i, j \in 1..Len(tabs) : tabs[i] = tabs[j] => i = j
       /\ {tabs[i] : i \in 1..Len(tabs)} = {t \in TabsFound : UnderWorkDir(t)}
       /\ TabsFound = {} => (Len(tabs) = 0 /\ Len(rt.out.r.Warnings) >= 1)

\* Two backends reported the same file of the work dir, and one a file of
\* the sibling directory /wx: the file came back once, the sibling not.
C19_Witness ==
  /\ EditorReturned
  /\ rt.in.readings[1].tabs = << << "/w", "x", "/", "a" >>, << "/w", "/", "a" >> >>
  /\ rt.in.readings[4].tabs = << << "/w", "/", "a" >> >>
  /\ ~rt.in.homeErr
  /\ rt.out.r.EditorTabs.items = << << "/w", "/", "a" >> >>

\* The six section headers as the Markdown renderer writes them, and as
\* view --plain prints them.
MdHeaders ==
  << "## Summary\n\n", "## Annotations\n\n", "## File Edits\n\n", "## Git Changes\n\n",
     "## Terminal Commands\n\n", "## Editor Tabs\n\n" >>

PlainHeaders ==
  << "## Summary\n", "## Annotations\n", "## File Edits\n", "## Git Changes\n",
     "## Terminal Commands\n", "## Editor Tabs\n" >>

\* The headers of a text, in the order they stand in it.
HeadersIn(text, headers) ==
  SelectSeq(text, LAMBDA u : \E k \in 1..Len(headers) : headers[k] = u)

\* C20: the Markdown document of every bundle starts with the version
\* marker, followed by the payload, the base64 of the bundle's JSON; and
\* both it and what view --plain prints hold the six section headers
\* Summary, Annotations, File Edits, Git Changes, Terminal Commands, Editor
\* Tabs, each once and in that order.
C20_SixSections ==
  /\ (rt.kind = "bundle" /\ rt.stage = "rendered" /\ rt.format = "markdown" /\ ~rt.err)
     => /\ Len(rt.text) >= 4
        /\ rt.text[1] = VersionSentinel /\ rt.text[2] = "\n" /\ rt.text[3] = DataPrefix
        /\ \E end \in 4..Len(rt.text) :
             /\ rt.text[end] = DataSuffix
             /\ SubSeq(rt.text, 4, end - 1) = B64Encode(Marshal("ContextBundle", rt.bundle).data)
             /\ HeadersIn(SubSeq(rt.text, 1, end), MdHeaders) = <<>>
        /\ HeadersIn(rt.text, MdHeaders) = MdHeaders
  /\ (rt.kind = "bundle" /\ rt.stage = "viewed" /\ ~rt.err)
     => HeadersIn(rt.plain, PlainHeaders) = PlainHeaders

\* view --plain has printed the Markdown document of a bundle with nil
\* collections and no GitInfo.
C20_Witness ==
  /\ rt.kind = "bundle" /\ rt.stage = "viewed" /\ ~rt.err
  /\ rt.format = "markdown"
  /\ rt.bundle.git = NilPtr
  /\ Len(rt.bundle.annotations.items) = 0 /\ Len(rt.bundle.commands.items) = 0
  /\ HeadersIn(rt.text, MdHeaders) = MdHeaders
  /\ HeadersIn(rt.plain, PlainHeaders) = PlainHeaders

\* MarkdownParser.Parse has returned.
MarkdownReturned == rt.kind = "mdparse" /\ rt.stage = "returned"

\* What the payload alone stands for: the bundle its JSON decodes to, or
\* an error.
OfPayload(payload) ==
  IF B64Decode(payload).err THEN [err |-> TRUE, v |-> Zero("ContextBundle")]
  ELSE Unmarshal("ContextBundle", B64Decode(payload).data)

\* C21: a document with the version marker and a leading data payload is
\* parsed to what that payload stands for, whatever its sections hold:
\* two documents with the same marker and leading payload parse alike.
C21_PayloadOnly ==
  (MarkdownReturned /\ rt.in.marker /\ rt.in.prefix /\ rt.in.suffix)
  => rt.out = OfPayload(rt.in.payload)

\* A document whose sections hold a second, empty data comment after the
\* payload of a bundle was parsed to that bundle.
C21_Witness ==
  /\ MarkdownReturned /\ rt.in.marker /\ rt.in.prefix /\ rt.in.suffix
  /\ rt.in.sections = << DataPrefix, DataSuffix >>
  /\ ~rt.out.err
  /\ rt.out.v = NilBundle(<< "a" >>)

\* The text of the data comment of the document parsed: what stands between
\* the first start of a data comment and the first end after it.
CommentOf(doc) ==
  LET rest == SubSeq(doc, IndexOf(doc, DataPrefix) + 1, Len(doc))
  IN SubSeq(rest, 1, IndexOf(rest, DataSuffix) - 1)

\* The document has a version marker and a data comment with an end.
WellMarked(doc) ==
  /\ \E i \in 1..Len(doc) : doc[i] = VersionSentinel
  /\ \E i \in 1..Len(doc) :
       /\ doc[i] = DataPrefix
       /\ \E j \in (i + 1)..Len(doc) : doc[j] = DataSuffix

\* C22: MarkdownParser.Parse returns an error and no bundle when the
\* version marker is absent, when the data comment is absent or has no
\* end, when its text is no base64 and when what it decodes to is no
\* bundle; and it returns a bundle only when none of this is so.
C22_InvalidBundle ==
  MarkdownReturned =>
    LET doc == Document(rt.in)
    IN /\ ~WellMarked(doc) => rt.out.err
       /\ (WellMarked(doc) /\ B64Decode(CommentOf(doc)).err) => rt.out.err
       /\ (WellMarked(doc) /\ ~B64Decode(CommentOf(doc)).err
           /\ Unmarshal("ContextBundle", B64Decode(CommentOf(doc)).data).err)
          => rt.out.err
       /\ rt.out.err => rt.out.v = Zero("ContextBundle")
       /\ ~rt.out.err =>
            /\ WellMarked(doc)
            /\ ~B64Decode(CommentOf(doc)).err
            /\ rt.out = Unmarshal("ContextBundle", B64Decode(CommentOf(doc)).data)

\* A document with a data comment and the payload of a bundle, but without
\* the version marker, was refused.
C22_Witness ==
  /\ MarkdownReturned
  /\ ~rt.in.marker /\ rt.in.prefix /\ rt.in.suffix
  /\ rt.in.sections = <<>>
  /\ ~OfPayload(rt.in.payload).err
  /\ rt.out.err

\* The annotation a note or a stop appends.
AnnotationOf(now, message, summary) ==
  [timestamp |-> now, message |-> message, is_summary |-> summary]

\* Stop p has built its bundle from a record that a Save wrote.
BundledSaved(p) ==
  /\ proc[p].cmd = "stop"
  /\ proc[p].pc \in {"output", "delete", "done"}
  /\ proc[p].result \notin {"collector error", "no active session",
                            "failed to parse session state"}
  /\ proc[p].from.present /\ Len(proc[p].from.saved) # 0

\* The annotations of the bundle of stop p are those of the session saved
\* last, followed by the summary annotation when a message was given.
NotesThenSummary(p) ==
  /\ proc[p].bundle.session.stop_time = proc[p].now
  /\ proc[p].bundle.annotations.items =
       proc[p].from.saved[1].annotations.items
         \o (IF Len(proc[p].arg) # 0
             THEN << AnnotationOf(proc[p].now, proc[p].arg, TRUE) >>
             ELSE <<>>)
  /\ \A i \in 1..Len(proc[p].from.saved[1].annotations.items) :
       ~proc[p].from.saved[1].annotations.items[i].is_summary

\* A note p that goes on to write saves the session it loaded with its
\* annotation, stamped with the time it reads, appended.
NoteAppends(p) ==
  (proc[p].cmd = "note" /\ proc[p].pc = "loaded" /\ proc'[p].pc = "write") =>
    /\ Len(proc[p].from.saved) # 0
    /\ inode'[proc'[p].tmp].saved[1].annotations.items =
         proc[p].from.saved[1].annotations.items
           \o << AnnotationOf(clock, proc[p].arg, FALSE) >>
    /\ inode'[proc'[p].tmp].saved[1].id = proc[p].from.saved[1].id

\* C23: a session that start created holds no annotation, each note saves
\* the session it loaded with its own annotation appended, flagged as a
\* plain note and stamped with the time of the note, and the bundle of a
\* stop holds the annotations of the session it loaded, in their order,
\* followed by one summary annotation stamped with the bundle's stop time
\* when a message was given, and by nothing otherwise.
C23_NotesThenSummary ==
  /\ [](\A p \in Procs : BundledSaved(p) => NotesThenSummary(p))
  /\ [][\A p \in Procs :
          /\ NoteAppends(p)
          /\ (proc[p].cmd = "start" /\ proc[p].pc = "loaded" /\ proc'[p].pc = "write")
               => inode'[proc'[p].tmp].saved[1].annotations.items = <<>>]_vars

\* A stop with a message has written the bundle of a session with one
\* note: the note and then the summary.
C23_Witness ==
  \E p \in Procs :
    /\ BundledSaved(p) /\ proc[p].written
    /\ Len(proc[p].bundle.annotations.items) = 2
    /\ ~proc[p].bundle.annotations.items[1].is_summary
    /\ proc[p].bundle.annotations.items[2].is_summary
    /\ proc[p].bundle.annotations.items[2].timestamp
         = proc[p].bundle.session.stop_time
    /\ proc[p].bundle.annotations.items[1].timestamp
         < proc[p].bundle.session.stop_time

\* A step of process p as the status command.
StatusStep(p) == proc'[p].cmd = "status" /\ proc'[p] # proc[p]

\* What status p printed at its end: the counts of the session that was
\* saved in the record it read, or "no active session" without a record.
StatusReported(p) ==
  /\ proc[p].writes = 0 /\ proc[p].tmp = 0
  /\ (proc[p].from.present /\ Len(proc[p].from.saved) # 0) =>
       /\ proc[p].result = "ok"
       /\ proc[p].printed = <<>>
       /\ proc[p].counts =
            << Len(proc[p].from.saved[1].annotations.items),
               Len(proc[p].from.saved[1].file_edits.items) >>
  /\ ~proc[p].from.present =>
       /\ proc[p].result = "ok"
       /\ proc[p].printed = << "no active session" >>
       /\ proc[p].counts = <<>>

\* C24: a status that read a saved session ends without an error having
\* reported the numbers of its annotations and of its file edits; one that
\* found no record ends without an error having reported "no active
\* session"; and no step of a status changes session.json, creates a file
\* or changes what a file holds.
C24_StatusReadOnly ==
  /\ [](\A p \in Procs :
          (proc[p].cmd = "status" /\ proc[p].pc = "done") => StatusReported(p))
  /\ [][\A p \in Procs :
          StatusStep(p) =>
            /\ sessionFile' = sessionFile
            /\ \A i \in DOMAIN inode' : i \in DOMAIN inode /\ inode'[i] = inode[i]]_vars

\* A status has reported the one annotation and no file edit of the stored
\* session, which is stored as before.
C24_Witness ==
  \E p \in Procs :
    /\ proc[p].cmd = "status" /\ proc[p].pc = "done"
    /\ proc[p].from.present
    /\ proc[p].counts = << 1, 0 >>
    /\ sessionFile # 0 /\ inode[sessionFile].content = proc[p].got

\* C25: a stop that ends on a collector's error leaves the shell plugin's
\* command log as it was when the collectors began, and a stop that ends on
\* a failed write of the output file leaves in the log every command it
\* had taken from it.
C25_AbortKeepsLog ==
  [][\A p \in Procs :
       /\ (proc[p].cmd = "stop" /\ proc[p].pc = "collect" /\ proc'[p].pc = "done")
            => cmdLog' = cmdLog
       /\ (proc[p].cmd = "stop" /\ proc[p].pc = "output" /\ proc'[p].pc = "done")
            => \A i \in 1..Len(proc[p].commands.items) :
                 proc[p].commands.items[i].timestamp # 0 =>
                   \E j \in 1..Len(cmdLog') : cmdLog'[j] = proc[p].commands.items[i]]_vars

\* The last n elements of a list, or all of it.
LastOf(list, n) ==
  IF Len(list) > n THEN SubSeq(list, Len(list) - n + 1, Len(list)) ELSE list

\* C26: over a history file without timestamps that only grew, the
\* commands the shell collector returns are the last 50, at most, of the
\* commands appended after the baseline was taken that are not the tool's
\* own start or stop.
C26_AppendedSinceStart ==
  (rt.kind = "session" /\ rt.stage = "returned") =>
    rt.out.r.Commands.items =
      LastOf(SelectSeq(rt.in.typed, LAMBDA c : ~isHandoffNoise(c.raw)),
             maxNoTimestampCommands)

\* The list sub can be had from the list by leaving elements out.
RECURSIVE IsSubsequence(_, _)
IsSubsequence(sub, list) ==
  IF Len(sub) = 0 THEN TRUE
  ELSE IF Len(list) = 0 THEN FALSE
  ELSE IF Head(sub) = Head(list) THEN IsSubsequence(Tail(sub), Tail(list))
  ELSE IsSubsequence(sub, Tail(list))

\* C27: the commands filterCommands returns are, in their order, commands
\* of the list it was given in the order of that list, whether or not the
\* list mixes commands with and without a timestamp.
C27_OrderPreserved ==
  FilterReturned => IsSubsequence(rt.out.commands.items, rt.in.commands)

\* C28: while the only commands in flight are starts, stops and watcher
\* writes, session.json, once removed (only the Delete of a stop that wrote
\* its bundle removes it), is created again by nothing but the Save of a
\* start.
C28_NoRecordAfterStop ==
  [][(/\ \A q \in Procs : proc[q].cmd \in {"idle", "start", "stop", "watch"}
      /\ sessionFile = 0 /\ sessionFile' # 0) =>
       \E p \in Procs :
         proc[p].cmd = "start" /\ proc[p].pc = "rename" /\ proc'[p].pc = "done"]_vars

\* The path matches a configured pattern.
ConfiguredIgnored(path) == isIgnored(rt.in.fc, path, rt.in.fc.IgnorePatterns)

\* C29: when an ignore file is there but cannot be read,
\* FileCollector.Collect returns no error and a warning, and every path
\* that the session recorded or that the scan found modified in the
\* window, and that matches no configured pattern, is in its result.
C29_UnreadableIgnoreFile ==
  (FilesReturned /\ \E i \in 1..2 : rt.in.files[i].state = "unreadable") =>
    /\ ~rt.out.err
    /\ Len(rt.out.r.Warnings) > 0
    /\ \A p \in RecordedPaths \cup {f.path : f \in ScannedInWindow} :
         ~ConfiguredIgnored(p) => p \in ResultPaths

\* What each collector returns to stop p on its machine, the file
\* collector having ranged over its map in the order given.
FileResult(p, order) ==
  FileCollect([WorkDir |-> proc[p].s.work_dir, IgnorePatterns |-> <<>>], proc[p].s,
              proc[p].s.stop_time[1], Machine(proc[p].machine).files,
              Machine(proc[p].machine).tree, order).r

ShellResult(p) ==
  ShellCollect([UsePluginLog |-> Len(proc[p].profile) # 0
                                   /\ proc[p].profile[1].RecordCommands],
               proc[p].s, cmdLog, Machine(proc[p].machine).history).r

GitResult(p) == GitCollect(Machine(proc[p].machine).git).r

EditorResult(p) ==
  EditorCollect([StateDir |-> <<>>], proc[p].s, NoReading,
                Machine(proc[p].machine).homeErr, Machine(proc[p].machine).readings).r

\* Stop p leaves the loop over the collectors with the file edits of the
\* file collector, the commands of the shell collector, the snapshot of the
\* git collector, the tabs of the editor collector and the warnings of the
\* four, in this order.
MergedInOrder(p) ==
  /\ proc'[p].ran = << "File", "Shell", "Git", "Editor" >>
  /\ \E order \in MapOrders(LatestPaths(
                   [WorkDir |-> proc[p].s.work_dir, IgnorePatterns |-> <<>>],
                   proc[p].s, proc[p].s.stop_time[1],
                   Machine(proc[p].machine).files, Machine(proc[p].machine).tree)) :
       /\ proc'[p].edits.items = FileResult(p, order).FileEdits.items
       /\ proc'[p].warnings = FileResult(p, order).Warnings
                                 \o ShellResult(p).Warnings
                                 \o GitResult(p).Warnings
                                 \o EditorResult(p).Warnings
  /\ proc'[p].commands.items = ShellResult(p).Commands.items
  /\ proc'[p].git = GitResult(p).GitInfo
  /\ proc'[p].tabs.items = EditorResult(p).EditorTabs.items

\* C30: a stop runs the collectors in the order File, Shell, Git, Editor,
\* as far as the first that returns an error; when none does, it has the
\* file edits, the commands, the git snapshot and the editor tabs each from
\* the collector that owns them and the warnings of the four collectors
\* concatenated in that order, and these are what its bundle holds.
C30_FixedOrderMerge ==
  /\ [](\A p \in Procs :
          proc[p].cmd = "stop" =>
            /\ \E n \in 0..4 :
                 proc[p].ran = SubSeq(<< "File", "Shell", "Git", "Editor" >>, 1, n)
            /\ proc[p].pc \in {"output", "delete"} =>
                 /\ proc[p].bundle.file_edits = proc[p].edits
                 /\ proc[p].bundle.commands = proc[p].commands
                 /\ proc[p].bundle.git = proc[p].git
                 /\ proc[p].bundle.editor_tabs = proc[p].tabs)
  /\ [][\A p \in Procs :
          (proc[p].cmd = "stop" /\ proc[p].pc = "collect" /\ proc'[p].pc = "render")
            => MergedInOrder(p)]_vars

\* A stop on the workstation has written a bundle with the file edit, the
\* command of the history, the git snapshot and the editor tab, after the
\* warning of the shell collector and then that of the editor collector.
C30_Witness ==
  \E p \in Procs :
    /\ proc[p].cmd = "stop" /\ proc[p].written
    /\ proc[p].ran = << "File", "Shell", "Git", "Editor" >>
    /\ proc[p].warnings = << "shell history has no timestamps", "vim" >>
    /\ Len(proc[p].bundle.file_edits.items) = 1
    /\ Len(proc[p].bundle.commands.items) = 1
    /\ Len(proc[p].bundle.git) # 0
    /\ Len(proc[p].bundle.editor_tabs.items) = 1

====
